---- MODULE Spec2Model ----
(***************************************************************************)
(* The messaging kernel of the wallet back end:                            *)
(*   - IntercomServer (lib/intercom/server.ts): port registry, request     *)
(*     multiplexer, broadcast;                                             *)
(*   - the back end's request handler and its concurrency-1 request queue  *)
(*     (lib/thanos/back.ts);                                               *)
(*   - the front end's request() wrapper (lib/temple/front/client) over    *)
(*     the intercom client, its signer and confirmInternal;                *)
(*   - the confirmation coordinator and the WalletState store, as far as   *)
(*     the back end drives them;                                           *)
(*   - the pending operations in browser storage                           *)
(*     (lib/temple/back/pndops.ts).                                        *)
(***************************************************************************)
EXTENDS Integers, Sequences, FiniteSets, TLC

(* ------------------------------ bounds -------------------------------- *)
\* requests the front ends send in one run
MaxReqs == 2
\* requests sent while handlers are registered and unregistered
MaxMuxReqs == 1
\* requests sent while the queue is under load
MaxQueueReqs == 3
\* handler registrations / unregistrations in one run
MaxHandlerOps == 2
\* sign(), secretKey() and confirmInternal() calls of the front ends
MaxSignerCalls == 3
\* confirmations the coordinator is asked for when it runs on its own; the
\* ids a confirm signal may carry
MaxConfirmations == 2
\* confirm signals handed to the coordinator on its own
MaxSignals == 2
\* append / remove calls on the pending operations in one run
MaxPndCalls == 3
\* entries in the list stored at the beginning
MaxStored == 2
\* envelopes the channel delivers a second time
MaxDups == 1
MaxPairReqs == 2
MaxFetchReqs == 2
MaxFetches == 2
MaxKeyCalls == 2
MaxNotes == 2

(* ------------------------------ values -------------------------------- *)
\* port objects the browser may hand to onConnect (identity = object identity)
Ports == {"p1", "p2"}

None == "none"

\* A JavaScript value, as far as the kernel inspects it: its kind, its "type"
\* property, its "message" property, its text when it is a string, and the
\* "id" and "confirmed" properties of a confirmation message.
Val(k, ty, m, s) ==
  [kind |-> k, type |-> ty, message |-> m, text |-> s, id |-> 0,
   confirmed |-> FALSE]
Undefined == Val("undefined", None, None, None)
Null == Val("null", None, None, None)
Obj(ty) == Val("object", ty, None, None)
Err(m) == Val("error", None, m, None)
Str(s) == Val("string", None, None, s)
Num == Val("number", None, None, None)

\* the `in` operator is defined on objects only; on anything else it throws
IsObject(v) == v.kind \in {"object", "error"}
HasType(v) == v.type # None
HasMessage(v) == v.message # None

DEFAULT_ERROR_MESSAGE == "Unexpected error occured"
TypeErrorMessage == "Cannot use 'in' operator"
PostMessageError == "Attempting to use a disconnected port object"
ChannelClosed == "channel closed"
InvalidResponse == "Invalid response recieved"

\* request types processRequest has a case for, with the response each returns
ResponseTypeOf ==
  [ GetStateRequest |-> "GetStateResponse",
    NewWalletRequest |-> "NewWalletResponse",
    UnlockRequest |-> "UnlockResponse",
    LockRequest |-> "LockResponse",
    CreateAccountRequest |-> "CreateAccountResponse",
    RevealPrivateKeyRequest |-> "RevealPrivateKeyResponse",
    RevealMnemonicRequest |-> "RevealMnemonicResponse",
    EditAccountRequest |-> "EditAccountResponse",
    ImportAccountRequest |-> "ImportAccountResponse",
    ImportFundraiserAccountRequest |-> "ImportFundraiserAccountResponse",
    SignRequest |-> "SignResponse" ]
HandledTypes == DOMAIN ResponseTypeOf

\* the request types the front end's actions send
ClientRequestTypes ==
  { "GetStateRequest", "NewWalletRequest", "UnlockRequest", "LockRequest",
    "CreateAccountRequest", "RevealPrivateKeyRequest", "RevealMnemonicRequest",
    "RemoveAccountRequest", "EditAccountRequest", "ImportAccountRequest",
    "ImportMnemonicAccountRequest", "ImportFundraiserAccountRequest",
    "ImportManagedKTAccountRequest", "ImportWatchOnlyAccountRequest",
    "CreateLedgerAccountRequest", "UpdateSettingsRequest", "GetAllPndOpsRequest",
    "RemovePndOpsRequest", "ConfirmationRequest", "DAppGetPayloadRequest",
    "DAppPermConfirmationRequest", "DAppOpsConfirmationRequest",
    "DAppSignConfirmationRequest", "DAppGetAllSessionsRequest",
    "DAppRemoveSessionRequest", "OperationsRequest", "SignRequest",
    "RevealPublicKeyRequest" }

\* cases of processRequest whose action changes the store
MutatingTypes ==
  { "NewWalletRequest", "UnlockRequest", "LockRequest", "CreateAccountRequest",
    "EditAccountRequest", "ImportAccountRequest", "ImportFundraiserAccountRequest" }

\* payloads the front ends send: a request processRequest has a case for, one
\* it has no case for, an object without a type, and a value that is no object
Payloads ==
  { Obj("UnlockRequest"), Obj("ConfirmationRequest"), Obj(None), Null }

\* values a handler of the multiplexer may throw
Thrown == { Err("Invalid password"), Obj(None), Str("oops"), Num, Null, Undefined }

\* the back end's handler, and two other handlers a caller may register
BackHandler == "handleRequest"
OtherHandlers == {"hA", "hB"}

Range(s) == { s[i] : i \in 1..Len(s) }

(* ------------------------------ state --------------------------------- *)
VARIABLES
  portState,    \* each port: "new", "open", "closed" (transport closed),
                \* "gone" (its onDisconnect listener has run)
  ports,        \* IntercomServer.ports, in insertion order
  listeners,    \* ports whose onMessage carries handleMessage
  reqHandlers,  \* IntercomServer.reqHandlers
  unregFns,     \* handlers whose unregister closure a caller holds
  handlerOps,   \* registrations and unregistrations so far
  inbox,        \* per port: envelopes in flight to the server
  outbox,       \* per port: envelopes in flight to the front end
  tasks,        \* the async request tasks of handleMessage, in start order
  queue,        \* requestQueue: jobs waiting
  running,      \* requestQueue: jobs executing
  submitted,    \* jobs in the order of requestQueue.add
  started,      \* jobs in the order they began executing
  promises,     \* per port: the front end's request() promises, by reqId
  bcast,        \* the last broadcast: who was registered, tried, reached
  conf,         \* the confirmation coordinator: the outstanding id, the
                \* outcome of every confirmation, the job that waits for it
  notes,        \* the notifications the coordinator has broadcast
  calls,        \* the calls made on the front end's signer, with results
  signals,      \* the confirm signals handed to the coordinator on its own
  store,        \* the WalletState store: status, mutations so far, and who
                \* made the last one
  startPc,      \* start(): "isExist" while it awaits Vault.isExist(), then
                \* "done"
  storage,      \* browser.storage.local: the list stored under each key
  stored0,      \* the content of storage at the beginning
  pndCalls,     \* the append / remove calls on the pending operations
  setQueue,     \* the write queue of pndops: jobs waiting and executing
  confirmationIdRef, \* per front end: confirmationIdRef.current (0: null)
  fetches,      \* the revalidate() calls of the front ends, in order
  confirmation  \* per front end: the confirmation displayed (id 0: null)

\* what the messaging kernel itself never touches
coordVars == << conf, notes, calls, signals >>
storeVars == << store, startPc >>
pndVars == << storage, stored0, pndCalls, setQueue >>
clientVars == << confirmationIdRef, fetches, confirmation >>
extVars == << coordVars, storeVars, pndVars, clientVars >>

vars == << portState, ports, listeners, reqHandlers, unregFns, handlerOps,
           inbox, outbox, tasks, queue, running, submitted, started,
           promises, bcast, conf, notes, calls, signals, store, startPc,
           storage, stored0, pndCalls, setQueue, confirmationIdRef,
           fetches, confirmation >>


(* --------------------- IntercomServer: the registry ------------------- *)
\* Set.add / Set.delete on `ports`, which forEach visits in insertion order
SetAdd(ps, p) == IF p \in Range(ps) THEN ps ELSE Append(ps, p)
SetDelete(ps, p) == SelectSeq(ps, LAMBDA x : x # p)

\* faulty variant of removePort: the listener is detached, the port stays in the set
removePortKeepsPort(reg, p) ==
  [ports |-> reg.ports, listeners |-> reg.listeners \ {p}]

\* addPort(port): attach the listener, add the port
addPort(reg, p) ==
  [ports |-> SetAdd(reg.ports, p), listeners |-> reg.listeners \cup {p}]

\* removePort(port): detach the listener, delete the port
removePort(reg, p) ==
  [ports |-> SetDelete(reg.ports, p), listeners |-> reg.listeners \ {p}]

Registry == [ports |-> ports, listeners |-> listeners]

\* addReqHandler pushes onto the array in place
addReqHandler(hs, h) == Append(hs, h)

\* faulty variant of removeReqHandler: the filter keeps the handler and drops the
\* others
removeReqHandlerKeepsIt(hs, h) == SelectSeq(hs, LAMBDA x : x = h)

\* removeReqHandler assigns a new, filtered array
removeReqHandler(hs, h) == SelectSeq(hs, LAMBDA x : x # h)

(* --------------------- IntercomServer: envelopes ---------------------- *)
ReqEnv(id, payload) == [type |-> "Req", reqId |-> id, data |-> payload]
ResEnv(id, data) == [type |-> "Res", reqId |-> id, data |-> data]
ErrEnv(id, data) == [type |-> "Err", reqId |-> id, data |-> data]
\* faulty variant of SubEnv: the subscription message carries a reqId
SubEnvWithReqId(data) == [type |-> "Sub", reqId |-> 1, data |-> data]
SubEnv(data) == [type |-> "Sub", data |-> data]

\* port.postMessage succeeds on an open transport and throws on a closed one
CanPost(p) == portState[p] = "open"

\* faulty variant of ErrorData: the message of the error is not looked at
ErrorDataAlwaysDefault(err) == Str(DEFAULT_ERROR_MESSAGE)

\* the data of the Error envelope: "message" in err ? err.message : DEFAULT
ErrorData(err) ==
  IF HasMessage(err) THEN Str(err.message) ELSE Str(DEFAULT_ERROR_MESSAGE)

\* the catch block of the request task. `"message" in err` throws a TypeError
\* for a value that is no object ("in"), and respond throws on a closed port
\* ("post"): either way the exception leaves the task.
Catch(t, err) ==
  IF IsObject(err)
    THEN [t EXCEPT !.pc = "done", !.live = FALSE,
                   !.posts = Append(@, ErrEnv(t.reqId, ErrorData(err))),
                   !.escaped = IF CanPost(t.port) THEN "no" ELSE "post"]
    ELSE [t EXCEPT !.pc = "done", !.live = FALSE, !.escaped = "in"]

\* faulty variant of LoopTurn: the loop lacks its break, so after responding it goes
\* on to the next handler
LoopTurnNoBreak(t, r) ==
  IF r.threw
    THEN Catch([t EXCEPT !.threw = TRUE, !.thrown = r.val], r.val)
  ELSE LET t1 == IF t.idx = 0 THEN t
                 ELSE [t EXCEPT !.returned = Append(@, r.val),
                                !.posts = IF r.val # Undefined
                                            THEN Append(@, ResEnv(t.reqId, r.val))
                                            ELSE @]
       IN IF t.idx < Len(t.hs)
            THEN [t1 EXCEPT !.idx = @ + 1, !.pc = "await",
                            !.called = Append(@, t.hs[t.idx + 1])]
            ELSE [t1 EXCEPT !.pc = "done", !.live = FALSE]

\* faulty variant of LoopTurn: the result is responded without the test for
\* undefined
LoopTurnRespondsUndefined(t, r) ==
  IF r.threw
    THEN Catch([t EXCEPT !.threw = TRUE, !.thrown = r.val], r.val)
  ELSE IF t.idx # 0
    THEN LET t1 == [t EXCEPT !.posts = Append(@, ResEnv(t.reqId, r.val)),
                             !.returned = Append(@, r.val)]
         IN IF CanPost(t.port)
              THEN [t1 EXCEPT !.pc = "done", !.live = FALSE]
              ELSE Catch(t1, Err(PostMessageError))
  ELSE IF t.idx < Len(t.hs)
    THEN [t EXCEPT !.idx = @ + 1, !.pc = "await",
                   !.called = Append(@, t.hs[t.idx + 1])]
    ELSE [t EXCEPT !.pc = "done", !.live = FALSE]

\* One turn of the loop in the request task, given what the awaited handler
\* produced: r.threw says whether it threw, r.val is the value or the error.
\* A defined value is responded and ends the loop; undefined moves on to the
\* next handler of the array being iterated, which is called at once.
LoopTurn(t, r) ==
  IF r.threw
    THEN Catch([t EXCEPT !.threw = TRUE, !.thrown = r.val], r.val)
  ELSE IF r.val # Undefined
    THEN LET t1 == [t EXCEPT !.posts = Append(@, ResEnv(t.reqId, r.val)),
                             !.returned = Append(@, r.val)]
         IN IF CanPost(t.port)
              THEN [t1 EXCEPT !.pc = "done", !.live = FALSE]
              ELSE Catch(t1, Err(PostMessageError))
  ELSE LET t1 == IF t.idx = 0 THEN t
                 ELSE [t EXCEPT !.returned = Append(@, r.val)]
       IN IF t.idx < Len(t.hs)
            THEN [t1 EXCEPT !.idx = @ + 1, !.pc = "await",
                            !.called = Append(@, t.hs[t.idx + 1])]
            ELSE [t1 EXCEPT !.pc = "done", !.live = FALSE]

\* the envelopes a turn put on the wire
Posted(t, t2) ==
  IF CanPost(t.port)
    THEN SubSeq(t2.posts, Len(t.posts) + 1, Len(t2.posts))
    ELSE << >>


\* broadcast(data): forEach over the ports in insertion order; the first
\* postMessage that throws ends the forEach, and the exception leaves
\* broadcast. `tried` are the ports postMessage was called on.
FirstFailing(ps) ==
  IF \E i \in 1..Len(ps) : ~CanPost(ps[i])
    THEN CHOOSE i \in 1..Len(ps) :
           /\ ~CanPost(ps[i])
           /\ \A j \in 1..(i - 1) : CanPost(ps[j])
    ELSE Len(ps) + 1

\* faulty variant of broadcast: the forEach ends after the first port
broadcastFirstOnly(ps) ==
  LET f == IF FirstFailing(ps) > 1 THEN Len(ps) - Len(Tail(ps)) + 1 ELSE FirstFailing(ps)
  IN [registered |-> ps,
      tried |-> SubSeq(ps, 1, IF f <= Len(ps) THEN f ELSE Len(ps)),
      reached |-> Range(SubSeq(ps, 1, f - 1)),
      threw |-> FALSE]

broadcast(ps) ==
  LET f == FirstFailing(ps)
  IN [registered |-> ps,
      tried |-> SubSeq(ps, 1, IF f <= Len(ps) THEN f ELSE Len(ps)),
      reached |-> Range(SubSeq(ps, 1, f - 1)),
      threw |-> f <= Len(ps)]

(* --------------------- back end: handler and queue -------------------- *)
\* new Queue(1)
requestQueueConcurrency == 1

\* faulty variants of QueueNext: no concurrency limit; the newest job first
QueueNextNoLimit(q, run) ==
  IF q # << >>
    THEN [queue |-> Tail(q), running |-> run \cup {Head(q)}, began |-> <<Head(q)>>]
    ELSE [queue |-> q, running |-> run, began |-> << >>]

\* faulty variant of QueueNext: the job that starts stays in the queue
QueueNextKeepsJob(q, run) ==
  IF q # << >> /\ Cardinality(run) < requestQueueConcurrency
    THEN [queue |-> q, running |-> run \cup {Head(q)}, began |-> <<Head(q)>>]
    ELSE [queue |-> q, running |-> run, began |-> << >>]

QueueNextNewestFirst(q, run) ==
  IF q # << >> /\ Cardinality(run) < requestQueueConcurrency
    THEN [queue |-> SubSeq(q, 1, Len(q) - 1), running |-> run \cup {q[Len(q)]},
          began |-> <<q[Len(q)]>>]
    ELSE [queue |-> q, running |-> run, began |-> << >>]

\* Queue: start the job at the head while a slot is free
QueueNext(q, run) ==
  IF q # << >> /\ Cardinality(run) < requestQueueConcurrency
    THEN [queue |-> Tail(q), running |-> run \cup {Head(q)}, began |-> <<Head(q)>>]
    ELSE [queue |-> q, running |-> run, began |-> << >>]

\* handleRequest(req), up to its first suspension: `"type" in req` throws for
\* a value that is no object; without a type it returns undefined; with a
\* type it adds a job to requestQueue and waits for it.
handleRequest(req) ==
  IF ~IsObject(req) THEN "throw"
  ELSE IF HasType(req) THEN "queue"
  ELSE "return"

\* faulty variant of processRequest: the LockRequest case answers with the response
\* type of the UnlockRequest case
processRequestCrossed(req) ==
  IF req.type = "LockRequest" THEN Obj("UnlockResponse")
  ELSE IF req.type \in HandledTypes THEN Obj(ResponseTypeOf[req.type])
  ELSE Undefined

\* processRequest(req) once its action succeeded: the response of the case
\* taken, or undefined when the switch has no case for req.type
processRequest(req) ==
  IF req.type \in HandledTypes THEN Obj(ResponseTypeOf[req.type]) ELSE Undefined

\* the request task is waiting for handler h
Awaits(t, h) == t.pc = "await" /\ t.idx >= 1 /\ t.hs[t.idx] = h
AwaitsJob(t) == Awaits(t, BackHandler) /\ handleRequest(t.data) = "queue"

NewTask(p, msg) ==
  [port |-> p, reqId |-> msg.reqId, data |-> msg.data, hs |-> reqHandlers,
   live |-> TRUE, idx |-> 0, pc |-> "start", called |-> << >>,
   returned |-> << >>, posts |-> << >>, escaped |-> "no", threw |-> FALSE,
   thrown |-> Undefined, job |-> "none", seen |-> conf.id]

\* (seen: the confirmation that was outstanding when the message arrived)

\* faulty variant of respond: the message is posted on every port
respondOnEveryPort(port, msgs) == [p \in Ports |-> msgs]

\* respond(port, msg): port.postMessage(msg); what each port receives
respond(port, msgs) == [p \in Ports |-> IF p = port THEN msgs ELSE << >>]

\* The effect of one turn of task i's loop on the tasks, the wire and the
\* queue: t2 is the task after the turn; when the turn called handleRequest
\* with a typed request the job is added, and the queue starts what it can.
\* freed is the job that has just settled, if any.
Turn(i, t2, freed, extra) ==
  LET t == IF i <= Len(tasks) THEN tasks[i] ELSE t2
      adds == AwaitsJob(t2) /\ (i > Len(tasks) \/ t2.idx # t.idx)
      q1 == IF adds THEN Append(queue, i) ELSE queue
      nx == QueueNext(q1, running \ freed)
      sent == IF i <= Len(tasks) THEN Posted(t, t2) ELSE << >>
  IN /\ tasks' = IF i <= Len(tasks) THEN [tasks EXCEPT ![i] = t2]
                                     ELSE Append(tasks, t2)
     /\ queue' = nx.queue
     /\ running' = nx.running
     /\ started' = started \o nx.began
     /\ submitted' = IF adds THEN Append(submitted, i) ELSE submitted
     /\ outbox' = [p \in Ports |->
                     outbox[p] \o (IF p \in extra THEN <<SubEnv(Obj("StateUpdated"))>>
                                                 ELSE << >>)
                               \o respond(t2.port, sent)[p]]


(* --------------------- front end: request correlation ----------------- *)
Pending == [st |-> "pending", val |-> Undefined]
Resolved(v) == [st |-> "resolved", val |-> v]
Rejected(e) == [st |-> "rejected", val |-> e]

\* faulty variant of request: a rejection of intercom.request is swallowed and the
\* promise of request() never settles
requestSwallowsRejection(r) ==
  IF r.st = "rejected" THEN [st |-> "pending", val |-> Undefined]
  ELSE IF r.st # "resolved" THEN r
  ELSE IF ~IsObject(r.val) THEN [st |-> "rejected", val |-> Err(TypeErrorMessage)]
  ELSE IF HasType(r.val) THEN r
  ELSE [st |-> "rejected", val |-> Err(InvalidResponse)]

\* request(req): await intercom.request(req), then assertResponse("type" in
\* res). A rejection of intercom.request passes through unchanged.
request(r) ==
  IF r.st # "resolved" THEN r
  ELSE IF ~IsObject(r.val) THEN Rejected(Err(TypeErrorMessage))
  ELSE IF HasType(r.val) THEN r
  ELSE Rejected(Err(InvalidResponse))

\* intercom.request: a Response with the pending reqId resolves it with the
\* data, an Error rejects it with the message
IntercomSettle(env) ==
  IF env.type = "Res" THEN Resolved(env.data) ELSE Rejected(Err(env.data.text))

\* the channel closed: every correlation still pending is rejected
IntercomClose(ps) ==
  [i \in 1..Len(ps) |->
     IF ps[i].st = "pending" THEN request(Rejected(Err(ChannelClosed))) ELSE ps[i]]

TotalReqs == Len(promises["p1"]) + Len(promises["p2"])

(* ---------------------- confirmation coordinator ---------------------- *)
DeclinedMessage == "Declined"
SecretKeyMessage == "Secret key cannot be exposed"

\* a message that carries an id: a notification, or a request of the signer
WithId(ty, id) == [Obj(ty) EXCEPT !.id = id]

\* confirmInternal(id, confirmed): the ConfirmationRequest it sends
ConfirmationRequest(id, confirmed) ==
  [Obj("ConfirmationRequest") EXCEPT !.id = id, !.confirmed = confirmed]

\* no confirmation outstanding, none asked for yet
Idle == [id |-> 0, outcomes |-> << >>, owners |-> << >>]

\* A privileged operation asks for approval: a fresh id, stored as the single
\* outstanding one; the operation (owner) suspends until its outcome is known.
requestConfirmation(c, owner) ==
  [id |-> Len(c.outcomes) + 1, outcomes |-> Append(c.outcomes, "waiting"),
   owners |-> Append(c.owners, owner)]

\* faulty variant of confirm: the id of the signal is not compared
confirmAnyId(c, id, decision) ==
  IF c.id # 0
    THEN [c EXCEPT !.id = 0,
                   !.outcomes[c.id] = IF decision THEN "confirmed" ELSE "declined"]
    ELSE c

\* A confirm / decline signal: with the outstanding id it resolves the wait
\* and clears the id; with any other id it is ignored.
confirm(c, id, decision) ==
  IF c.id # 0 /\ id = c.id
    THEN [c EXCEPT !.id = 0,
                   !.outcomes[id] = IF decision THEN "confirmed" ELSE "declined"]
    ELSE c

\* Expiry resolves the wait with a decline-equivalent outcome.
expire(c) ==
  IF c.id # 0 THEN [c EXCEPT !.id = 0, !.outcomes[c.id] = "expired"] ELSE c

\* the confirmation job i has asked for (0: none)
ConfirmationOf(i) ==
  IF \E k \in 1..Len(conf.owners) : conf.owners[k] = i
    THEN CHOOSE k \in 1..Len(conf.owners) : conf.owners[k] = i
    ELSE 0

\* Actions.sign settles by the outcome of its confirmation: with the
\* signature after approval, with the declined error otherwise.
ActionSettles(i, ok) ==
  tasks[i].data.type = "SignRequest" =>
    /\ ConfirmationOf(i) # 0
    /\ conf.outcomes[ConfirmationOf(i)] \in
         (IF ok THEN {"confirmed"} ELSE {"declined", "expired"})

\* what a failing action throws
ActionError(t) ==
  IF t.data.type = "SignRequest" THEN Err(DeclinedMessage)
                                  ELSE Err("Invalid password")

\* the coordinator broadcasts a notification that carries the id
Notify(ty, id) ==
  LET b == broadcast(ports)
  IN /\ notes' = Append(notes, [type |-> ty, id |-> id,
                                registered |-> b.registered,
                                reached |-> b.reached])
     /\ outbox' = [p \in Ports |->
                     outbox[p] \o (IF p \in b.reached
                                     THEN <<SubEnv(WithId(ty, id))>> ELSE << >>)]


(* ------------------------- the WalletState store ---------------------- *)
\* the status a successful action leaves behind
StatusAfter(status, ty) ==
  IF ty \in {"NewWalletRequest", "UnlockRequest"} THEN "Ready"
  ELSE IF ty = "LockRequest" THEN "Locked"
  ELSE status

\* faulty variant of Mutate: the store event has not been applied when the
\* watchers run
MutateNotCommitted(st, ty) == st

\* a store event of an action that ran inside a queue job
Mutate(st, ty) ==
  [status |-> StatusAfter(st.status, ty), n |-> st.n + 1, by |-> "job"]

\* inited(vaultExist), called by start()
inited(st, vaultExist) ==
  [status |-> IF vaultExist THEN "Locked" ELSE "Uninitialized",
   n |-> st.n + 1, by |-> "start"]

\* frontStore.watch(...) has been called: store updates are broadcast
Watching == startPc = "done"


(* ------------------------ pending operations ------------------------- *)
PndAccs == {"tz1"}
PndNets == {"main"}

\* faulty variant of getKey: the account is left out of the key
getKeyOfNet(accPkh, netId) == "pndops_" \o netId

\* getKey(accPkh, netId)
getKey(accPkh, netId) == "pndops_" \o netId \o "_" \o accPkh
PndKeys == { getKey(a, n) : a \in PndAccs, n \in PndNets }

\* a pending operation, as far as pndops inspects it: its hash; op tells the
\* entries of one hash apart
PndOp(h, o) == [hash |-> h, op |-> o]

\* lists that may be stored at the beginning
StoredOps == { PndOp("O1", "old"), PndOp("O3", "old") }
StoredLists ==
  UNION { [1..n -> StoredOps] : n \in 0..MaxStored }

\* the ops of an append call, the opHashes of a remove call
\* fromOpResults(opResults, hash): the results of one operation, reversed,
\* each given the hash of the operation (addedAt is not inspected by pndops)
fromOpResults(opResults, hash) ==
  [i \in 1..Len(opResults) |-> PndOp(hash, opResults[Len(opResults) + 1 - i])]
AppendArgs == { fromOpResults(<<"new">>, "O1"), fromOpResults(<<"new">>, "O2") }
RemoveArgs == { <<"O1">>, <<"O2">> }

\* faulty variant of appendItems: the new entries are put in front one at a time,
\* so they end up in reverse order
appendItemsOneAtATime(ops, currentItems) ==
  [i \in 1..Len(ops) |-> ops[Len(ops) + 1 - i]] \o currentItems

\* faulty variant of appendItems: the new entries are put at the end
appendItemsAtEnd(ops, currentItems) == currentItems \o ops

\* append: [...ops, ...currentItems]
appendItems(ops, currentItems) == ops \o currentItems

\* faulty variant of removeItems: of the entries to delete only the first in
\* the list is deleted
removeItemsFirstOnly(currentItems, opHashes) ==
  LET hit == { i \in 1..Len(currentItems) : currentItems[i].hash \in Range(opHashes) }
  IN IF hit = {} THEN currentItems
     ELSE LET f == CHOOSE i \in hit : \A j \in hit : i <= j
          IN SubSeq(currentItems, 1, f - 1) \o SubSeq(currentItems, f + 1, Len(currentItems))

\* remove: currentItems.filter(({ hash }) => !opHashes.includes(hash))
removeItems(currentItems, opHashes) ==
  SelectSeq(currentItems, LAMBDA x : x.hash \notin Range(opHashes))

\* nothing stored, no call made
PndEmpty ==
  /\ storage = [k \in PndKeys |-> << >>]
  /\ stored0 = storage
  /\ pndCalls = << >>
  /\ setQueue = [queue |-> << >>, running |-> {}]


(* ------------------------------ Init ---------------------------------- *)
NoBroadcast ==
  [n |-> 0, registered |-> << >>, tried |-> << >>, reached |-> {},
   threw |-> FALSE, open |-> {}]

\* the state after `new IntercomServer()` and the first statement of
\* start(intercom), the registration of handleRequest
Constructed ==
  /\ portState = [p \in Ports |-> "new"]
  /\ ports = << >>
  /\ listeners = {}
  /\ reqHandlers = <<BackHandler>>
  /\ unregFns = {}
  /\ handlerOps = 0
  /\ inbox = [p \in Ports |-> << >>]
  /\ outbox = [p \in Ports |-> << >>]
  /\ tasks = << >>
  /\ queue = << >>
  /\ running = {}
  /\ submitted = << >>
  /\ started = << >>
  /\ promises = [p \in Ports |-> << >>]
  /\ bcast = NoBroadcast
  /\ conf = Idle
  /\ notes = << >>
  /\ calls = << >>
  /\ signals = << >>
  /\ confirmationIdRef = [p \in Ports |-> 0]
  /\ fetches = << >>
  /\ confirmation = [p \in Ports |-> [id |-> 0, payload |-> None]]

\* the state after start(intercom) has run to its end, the vault existing;
\* store.n counts the mutations from here on
Init ==
  /\ Constructed
  /\ store = [status |-> "Locked", n |-> 0, by |-> "none"]
  /\ startPc = "done"
  /\ PndEmpty

\* the state in which start(intercom) awaits Vault.isExist()
StartInit ==
  /\ Constructed
  /\ store = [status |-> "Uninitialized", n |-> 0, by |-> "none"]
  /\ startPc = "isExist"
  /\ PndEmpty

(* ------------------------------ actions ------------------------------- *)
\* browser.runtime.onConnect: addPort(port)
Connect(p) ==
  /\ portState[p] = "new"
  /\ p = "p2" => portState["p1"] # "new"
  /\ portState' = [portState EXCEPT ![p] = "open"]
  /\ ports' = addPort(Registry, p).ports
  /\ listeners' = addPort(Registry, p).listeners
  /\ UNCHANGED extVars
  /\ UNCHANGED << reqHandlers, unregFns, handlerOps, inbox, outbox, tasks,
                  queue, running, submitted, started, promises, bcast >>

\* the transport of p closes; the front end's pending requests are rejected.
\* The server learns of it later, when onDisconnect fires.
PortClose(p) ==
  /\ portState[p] = "open"
  /\ portState' = [portState EXCEPT ![p] = "closed"]
  /\ promises' = [promises EXCEPT ![p] = IntercomClose(@)]
  /\ outbox' = [outbox EXCEPT ![p] = << >>]
  /\ UNCHANGED extVars
  /\ UNCHANGED << ports, listeners, reqHandlers, unregFns, handlerOps, inbox,
                  tasks, queue, running, submitted, started, bcast >>

\* port.onDisconnect: removePort(port)
Disconnect(p) ==
  /\ portState[p] = "closed"
  /\ portState' = [portState EXCEPT ![p] = "gone"]
  /\ ports' = removePort(Registry, p).ports
  /\ listeners' = removePort(Registry, p).listeners
  /\ UNCHANGED extVars
  /\ UNCHANGED << reqHandlers, unregFns, handlerOps, inbox, outbox,
                  tasks, queue, running, submitted, started, promises, bcast >>

\* the front end calls request(payload) on its open port
SendRequest(p, payload, limit) ==
  /\ portState[p] = "open"
  /\ TotalReqs < limit
  /\ promises' = [promises EXCEPT ![p] = Append(@, Pending)]
  /\ inbox' = [inbox EXCEPT ![p] = Append(@, ReqEnv(Len(promises[p]) + 1, payload))]
  /\ UNCHANGED extVars
  /\ UNCHANGED << portState, ports, listeners, reqHandlers, unregFns,
                  handlerOps, outbox, tasks, queue, running, submitted,
                  started, bcast >>

\* the front end receives the next envelope of its port
ClientReceive(p) ==
  /\ portState[p] = "open"
  /\ outbox[p] # << >>
  /\ LET env == Head(outbox[p])
     IN /\ outbox' = [outbox EXCEPT ![p] = Tail(@)]
        /\ promises' =
             IF /\ env.type \in {"Res", "Err"}
                /\ env.reqId \in 1..Len(promises[p])
                /\ promises[p][env.reqId].st = "pending"
               THEN [promises EXCEPT ![p][env.reqId] = request(IntercomSettle(env))]
               ELSE promises
  /\ UNCHANGED extVars
  /\ UNCHANGED << portState, ports, listeners, reqHandlers, unregFns,
                  handlerOps, inbox, tasks, queue, running, submitted,
                  started, bcast >>

ClientRequest(p, payload) == SendRequest(p, payload, MaxReqs)

MuxClientRequest(p, payload) == SendRequest(p, payload, MaxMuxReqs)

QueueClientRequest(p, payload) == SendRequest(p, payload, MaxQueueReqs)

\* handleMessage(msg, port): a Request starts a request task, which runs up to
\* its first await
HandleMessage(p) ==
  /\ inbox[p] # << >>
  /\ p \in listeners
  /\ inbox' = [inbox EXCEPT ![p] = Tail(@)]
  /\ LET msg == Head(inbox[p])
     IN IF msg.type = "Req"
          THEN Turn(Len(tasks) + 1,
                    LoopTurn(NewTask(p, msg), [threw |-> FALSE, val |-> Undefined]),
                    {}, {})
          ELSE UNCHANGED << tasks, queue, running, submitted, started, outbox >>
  /\ UNCHANGED extVars
  /\ UNCHANGED << portState, ports, listeners, reqHandlers, unregFns,
                  handlerOps, promises, bcast >>

\* a message on a port that carries no listener reaches no handler
DropMessage(p) ==
  /\ inbox[p] # << >>
  /\ p \notin listeners
  /\ inbox' = [inbox EXCEPT ![p] = Tail(@)]
  /\ UNCHANGED extVars
  /\ UNCHANGED << portState, ports, listeners, reqHandlers, unregFns,
                  handlerOps, outbox, tasks, queue, running, submitted,
                  started, promises, bcast >>

\* handleRequest settles without a job: it threw on `"type" in req`, or it
\* returned undefined for a request without a type
HandleRequestSettles(i) ==
  /\ i \in 1..Len(tasks)
  /\ Awaits(tasks[i], BackHandler)
  /\ handleRequest(tasks[i].data) # "queue"
  /\ Turn(i, LoopTurn(tasks[i],
                      IF handleRequest(tasks[i].data) = "throw"
                        THEN [threw |-> TRUE, val |-> Err(TypeErrorMessage)]
                        ELSE [threw |-> FALSE, val |-> Undefined]),
          {}, {})
  /\ UNCHANGED extVars
  /\ UNCHANGED << portState, ports, listeners, reqHandlers, unregFns,
                  handlerOps, inbox, promises, bcast >>

\* another registered handler settles: with undefined, with data, or by
\* throwing any value
OtherResults ==
  { [threw |-> FALSE, val |-> v] : v \in {Undefined, Obj("OtherResponse")} }
    \cup { [threw |-> TRUE, val |-> v] : v \in Thrown }

HandlerSettles(i, r) ==
  /\ i \in 1..Len(tasks)
  /\ \E h \in OtherHandlers : Awaits(tasks[i], h)
  /\ Turn(i, LoopTurn(tasks[i], r), {}, {})
  /\ UNCHANGED extVars
  /\ UNCHANGED << portState, ports, listeners, reqHandlers, unregFns,
                  handlerOps, inbox, promises, bcast >>

\* faulty variant of JobSlotFreed: the job lacks catch(reject), so a job that throws
\* never gives its slot back
JobSlotFreedOnSuccess(i, ok) == IF ok THEN {i} ELSE {}

\* The job handed to requestQueue.add is processRequest(req).then(response)
\* .catch(reject): its promise resolves whether the action succeeded or
\* threw, so the queue gets its slot back either way.
\* faulty variant of JobSlotFreed: a job whose response cannot be delivered keeps
\* its slot
JobSlotFreedIfDelivered(i, ok) == IF CanPost(tasks[i].port) THEN {i} ELSE {}

JobSlotFreed(i, ok) == {i}

\* The executing job settles. Its action either succeeds or throws; a
\* successful action of a mutating case changes the store, whose watcher
\* broadcasts StateUpdated. then(response) / catch(reject) settle the promise
\* of handleRequest and the queue moves on to the next job.
JobFinish(i, ok) ==
  /\ i \in running
  /\ ok \/ tasks[i].data.type \in HandledTypes
  /\ ActionSettles(i, ok)
  /\ LET t == tasks[i]
         mutated == ok /\ t.data.type \in MutatingTypes
         watched == mutated /\ Watching
         b == broadcast(ports)
         r == IF ok THEN [threw |-> FALSE, val |-> processRequest(t.data)]
                    ELSE [threw |-> TRUE, val |-> ActionError(t)]
     IN /\ Turn(i, LoopTurn([t EXCEPT !.job = IF ok THEN "ok" ELSE "failed"], r),
                JobSlotFreed(i, ok), IF watched THEN b.reached ELSE {})
        /\ store' = IF mutated THEN Mutate(store, t.data.type) ELSE store
        /\ bcast' = IF watched
                      THEN [n |-> bcast.n + 1, registered |-> b.registered,
                            tried |-> b.tried, reached |-> b.reached,
                            threw |-> b.threw,
                            open |-> { p \in Ports : CanPost(p) }]
                      ELSE bcast
  /\ UNCHANGED << coordVars, startPc, pndVars, clientVars >>
  /\ UNCHANGED << portState, ports, listeners, reqHandlers, unregFns,
                  handlerOps, inbox, promises >>

\* intercom.handleRequest(handler): addReqHandler; the caller keeps the
\* returned unregister function
RegisterHandler(h) ==
  /\ handlerOps < MaxHandlerOps
  /\ h = "hB" => "hA" \in unregFns
  /\ handlerOps' = handlerOps + 1
  /\ reqHandlers' = addReqHandler(reqHandlers, h)
  /\ unregFns' = unregFns \cup {h}
  /\ tasks' = [i \in 1..Len(tasks) |->
                 IF tasks[i].live
                   THEN [tasks[i] EXCEPT !.hs = addReqHandler(@, h)]
                   ELSE tasks[i]]
  /\ UNCHANGED extVars
  /\ UNCHANGED << portState, ports, listeners, inbox, outbox, queue, running,
                  submitted, started, promises, bcast >>

\* the unregister function: removeReqHandler. Tasks already iterating keep
\* the array they started on, which no longer changes.
UnregisterHandler(h) ==
  /\ h \in unregFns
  /\ handlerOps < MaxHandlerOps
  /\ handlerOps' = handlerOps + 1
  /\ reqHandlers' = removeReqHandler(reqHandlers, h)
  /\ tasks' = [i \in 1..Len(tasks) |-> [tasks[i] EXCEPT !.live = FALSE]]
  /\ UNCHANGED extVars
  /\ UNCHANGED << portState, ports, listeners, unregFns, inbox, outbox, queue,
                  running, submitted, started, promises, bcast >>

\* The back end as start() sets it up: handleRequest is the only handler.
Next ==
  \/ \E p \in Ports : Connect(p)
  \/ \E p \in Ports : PortClose(p)
  \/ \E p \in Ports : Disconnect(p)
  \/ \E p \in Ports, payload \in Payloads : ClientRequest(p, payload)
  \/ \E p \in Ports : ClientReceive(p)
  \/ \E p \in Ports : HandleMessage(p)
  \/ \E p \in Ports : DropMessage(p)
  \/ \E i \in 1..Len(tasks) : HandleRequestSettles(i)
  \/ \E i \in 1..Len(tasks), ok \in BOOLEAN : JobFinish(i, ok)

Spec == Init /\ [][Next]_vars

\* The multiplexer with further handlers registered and unregistered while
\* requests are in flight. The dispatch of a request does not depend on the
\* other ports, so one front end is connected.
MuxPorts == {"p1"}

MuxNext ==
  \/ \E p \in MuxPorts : Connect(p)
  \/ \E p \in MuxPorts : PortClose(p)
  \/ \E p \in MuxPorts : Disconnect(p)
  \/ \E p \in MuxPorts, payload \in Payloads : MuxClientRequest(p, payload)
  \/ \E p \in MuxPorts : HandleMessage(p)
  \/ \E p \in MuxPorts : DropMessage(p)
  \/ \E i \in 1..Len(tasks) : HandleRequestSettles(i)
  \/ \E i \in 1..Len(tasks), r \in OtherResults : HandlerSettles(i, r)
  \/ \E i \in 1..Len(tasks), ok \in BOOLEAN : JobFinish(i, ok)
  \/ \E h \in OtherHandlers : RegisterHandler(h)
  \/ \E h \in OtherHandlers : UnregisterHandler(h)

MuxSpec == Init /\ [][MuxNext]_vars

\* The request queue under load: the front ends stay connected and send
\* requests that carry a type, each of which becomes a job.
TypedPayloads == { v \in Payloads : handleRequest(v) = "queue" }

QueueLoadNext ==
  \/ \E p \in Ports : Connect(p)
  \/ \E p \in Ports, payload \in TypedPayloads : QueueClientRequest(p, payload)
  \/ \E p \in Ports : HandleMessage(p)
  \/ \E i \in 1..Len(tasks), ok \in BOOLEAN : JobFinish(i, ok)

QueueSpec == Init /\ [][QueueLoadNext]_vars

(* ------------------- the signer and its confirmations ----------------- *)
\* the front end that holds the signer; it is the one that shows the
\* confirmation of its own sign() and calls confirmInternal, the other front
\* end listens
SignerPorts == {"p1"}

CallsOf(m) == { k \in 1..Len(calls) : calls[k].method = m }

\* ConfirmationRequests the front ends have sent so far
ConfirmsSent ==
  Cardinality({ <<p, k>> \in Ports \X (1..MaxSignerCalls) :
                  /\ k <= Len(inbox[p])
                  /\ inbox[p][k].data.type = "ConfirmationRequest" })
  + Cardinality({ i \in 1..Len(tasks) : tasks[i].data.type = "ConfirmationRequest" })

\* calls made so far
SignerCalls == Len(calls) + ConfirmsSent

\* the front end sends reqs on port p as its next requests
Send(p, reqs) ==
  /\ promises' = [promises EXCEPT ![p] = @ \o [k \in 1..Len(reqs) |-> Pending]]
  /\ inbox' = [inbox EXCEPT ![p] =
                 @ \o [k \in 1..Len(reqs) |-> ReqEnv(Len(promises[p]) + k, reqs[k])]]

\* the callback createTaquitoSigner / createTaquitoWallet hands to the
\* signer: confirmationIdRef.current = id
onBeforeSign(ref, id) == id

\* TempleSigner.sign(bytes, watermark): a fresh id from nanoid(), which no id
\* of the coordinator equals; onBeforeSign(id); then the SignRequest is sent.
SignerSign(p) ==
  /\ portState[p] = "open"
  /\ SignerCalls < MaxSignerCalls
  /\ LET id == 0 - (Cardinality(CallsOf("sign")) + 1)
     IN /\ calls' = Append(calls, [method |-> "sign", port |-> p, id |-> id,
                                   reqId |-> Len(promises[p]) + 1,
                                   sent |-> 1, result |-> Pending])
        /\ confirmationIdRef' =
             [confirmationIdRef EXCEPT ![p] = onBeforeSign(@, id)]
        /\ Send(p, <<WithId("SignRequest", id)>>)
  /\ UNCHANGED << portState, ports, listeners, reqHandlers, unregFns,
                  handlerOps, outbox, tasks, queue, running, submitted,
                  started, bcast, conf, notes, signals, fetches,
                  confirmation >>
  /\ UNCHANGED << storeVars, pndVars >>

\* faulty variant of secretKey: the key is asked of the back end
secretKeyFromBackEnd ==
  [result |-> Pending, sends |-> <<Obj("RevealPrivateKeyRequest")>>]

\* TempleSigner.secretKey(): throws; nothing is sent
secretKey ==
  [result |-> Rejected(Err(SecretKeyMessage)), sends |-> << >>]

SignerSecretKey(p) ==
  /\ SignerCalls < MaxSignerCalls
  /\ calls' = Append(calls, [method |-> "secretKey", port |-> p, id |-> 0,
                             reqId |-> 0, sent |-> Len(secretKey.sends),
                             result |-> secretKey.result])
  /\ Send(p, secretKey.sends)
  /\ UNCHANGED << portState, ports, listeners, reqHandlers, unregFns,
                  handlerOps, outbox, tasks, queue, running, submitted,
                  started, bcast, conf, notes, signals >>
  /\ UNCHANGED << storeVars, pndVars, clientVars >>

\* confirmInternal(id, confirmed) on a front end
ConfirmInternal(p, id, confirmed) ==
  /\ portState[p] = "open"
  /\ SignerCalls < MaxSignerCalls
  /\ Send(p, <<ConfirmationRequest(id, confirmed)>>)
  /\ UNCHANGED << portState, ports, listeners, reqHandlers, unregFns,
                  handlerOps, outbox, tasks, queue, running, submitted,
                  started, bcast, conf, notes, calls, signals >>
  /\ UNCHANGED << storeVars, pndVars, clientVars >>

\* Inside its job, Actions.sign asks the coordinator for approval: the
\* confirmation is requested, the front ends are notified, the job suspends.
RequestsConfirmation(i) ==
  /\ i \in running
  /\ tasks[i].data.type = "SignRequest"
  /\ ConfirmationOf(i) = 0
  /\ conf' = requestConfirmation(conf, i)
  /\ Notify("ConfirmationRequested", conf'.id)
  /\ UNCHANGED << portState, ports, listeners, reqHandlers, unregFns,
                  handlerOps, inbox, tasks, queue, running, submitted,
                  started, promises, bcast, calls, signals >>
  /\ UNCHANGED << storeVars, pndVars, clientVars >>

\* the outstanding confirmation expires
ConfirmationExpires ==
  /\ conf.id # 0
  /\ conf' = expire(conf)
  /\ Notify("ConfirmationExpired", conf.id)
  /\ UNCHANGED << portState, ports, listeners, reqHandlers, unregFns,
                  handlerOps, inbox, tasks, queue, running, submitted,
                  started, promises, bcast, calls, signals >>
  /\ UNCHANGED << storeVars, pndVars, clientVars >>

ConfirmNext ==
  \/ \E p \in Ports : Connect(p)
  \/ \E p \in SignerPorts : SignerSign(p)
  \/ \E p \in SignerPorts : SignerSecretKey(p)
  \/ \E p \in SignerPorts, id \in 1..MaxConfirmations, confirmed \in BOOLEAN :
       ConfirmInternal(p, id, confirmed)
  \/ \E p \in Ports : HandleMessage(p)
  \/ \E i \in 1..Len(tasks) : RequestsConfirmation(i)
  \/ ConfirmationExpires
  \/ \E i \in 1..Len(tasks), ok \in BOOLEAN : JobFinish(i, ok)

ConfirmSpec == Init /\ [][ConfirmNext]_vars

\* The coordinator on its own: approvals are asked for one at a time, and the
\* confirm / decline signals reach it directly.
CoordRequest ==
  /\ conf.id = 0
  /\ Len(conf.outcomes) < MaxConfirmations
  /\ conf' = requestConfirmation(conf, 0)
  /\ Notify("ConfirmationRequested", conf'.id)
  /\ UNCHANGED << portState, ports, listeners, reqHandlers, unregFns,
                  handlerOps, inbox, tasks, queue, running, submitted,
                  started, promises, bcast, calls, signals >>
  /\ UNCHANGED << storeVars, pndVars, clientVars >>

CoordSignal(id, decision) ==
  /\ Len(signals) < MaxSignals
  /\ conf' = confirm(conf, id, decision)
  /\ signals' = Append(signals, [id |-> id, confirmed |-> decision,
                                 outstanding |-> conf.id])
  /\ UNCHANGED << portState, ports, listeners, reqHandlers, unregFns,
                  handlerOps, inbox, outbox, tasks, queue, running, submitted,
                  started, promises, bcast, notes, calls >>
  /\ UNCHANGED << storeVars, pndVars, clientVars >>

CoordNext ==
  \/ \E p \in Ports : Connect(p)
  \/ CoordRequest
  \/ \E id \in 1..MaxConfirmations, decision \in BOOLEAN : CoordSignal(id, decision)
  \/ ConfirmationExpires

CoordSpec == Init /\ [][CoordNext]_vars

\* start(), resumed when Vault.isExist() has settled: inited(vaultExist)
\* changes the store; frontStore.watch registers the watcher, which is called
\* once at once and from then on at every store update.
StartInited(vaultExist) ==
  /\ startPc = "isExist"
  /\ startPc' = "done"
  /\ store' = inited(store, vaultExist)
  /\ LET b == broadcast(ports)
     IN /\ bcast' = [n |-> bcast.n + 1, registered |-> b.registered,
                     tried |-> b.tried, reached |-> b.reached,
                     threw |-> b.threw,
                     open |-> { p \in Ports : CanPost(p) }]
        /\ outbox' = [p \in Ports |->
                        outbox[p] \o (IF p \in b.reached
                                        THEN <<SubEnv(Obj("StateUpdated"))>>
                                        ELSE << >>)]
  /\ UNCHANGED << portState, ports, listeners, reqHandlers, unregFns,
                  handlerOps, inbox, tasks, queue, running, submitted,
                  started, promises >>
  /\ UNCHANGED << coordVars, pndVars, clientVars >>

\* The back end from the moment start() awaits Vault.isExist(): front ends
\* connect and requests are handled while start() is suspended.
StartNext ==
  \/ \E p \in Ports : Connect(p)
  \/ \E p \in Ports, payload \in Payloads : ClientRequest(p, payload)
  \/ \E p \in Ports : HandleMessage(p)
  \/ \E i \in 1..Len(tasks) : HandleRequestSettles(i)
  \/ \E i \in 1..Len(tasks), ok \in BOOLEAN : JobFinish(i, ok)
  \/ \E vaultExist \in BOOLEAN : StartInited(vaultExist)

StartSpec == StartInit /\ [][StartNext]_vars

\* append(accPkh, netId, ops) / remove(accPkh, netId, opHashes), up to the
\* await of browser.storage.local.get in getAll
PndCall(kind, key, ops, opHashes) ==
  /\ Len(pndCalls) < MaxPndCalls
  /\ pndCalls' = Append(pndCalls,
       [kind |-> kind, key |-> key, ops |-> ops, opHashes |-> opHashes,
        pc |-> "get", items |-> << >>,
        overlapped |-> \E c \in 1..Len(pndCalls) : pndCalls[c].pc # "done"])
  /\ UNCHANGED << storage, stored0, setQueue >>
  /\ UNCHANGED << portState, ports, listeners, reqHandlers, unregFns,
                  handlerOps, inbox, outbox, tasks, queue, running, submitted,
                  started, promises, bcast >>
  /\ UNCHANGED << coordVars, storeVars, clientVars >>

\* getAll returns what is stored now; the call computes the new list and
\* hands it to set(), which adds the write to setQueue
PndGot(c) ==
  /\ pndCalls[c].pc = "get"
  /\ LET call == pndCalls[c]
         currentItems == storage[call.key]
         items == IF call.kind = "append"
                    THEN appendItems(call.ops, currentItems)
                    ELSE removeItems(currentItems, call.opHashes)
         nx == QueueNext(Append(setQueue.queue, c), setQueue.running)
     IN /\ pndCalls' = [pndCalls EXCEPT ![c].pc = "set", ![c].items = items]
        /\ setQueue' = [queue |-> nx.queue, running |-> nx.running]
  /\ UNCHANGED << storage, stored0 >>
  /\ UNCHANGED << portState, ports, listeners, reqHandlers, unregFns,
                  handlerOps, inbox, outbox, tasks, queue, running, submitted,
                  started, promises, bcast >>
  /\ UNCHANGED << coordVars, storeVars, clientVars >>

\* browser.storage.local.set of the executing write has completed: the list
\* is stored, the call returns, the queue starts its next write
PndSet(c) ==
  /\ c \in setQueue.running
  /\ LET nx == QueueNext(setQueue.queue, setQueue.running \ {c})
     IN setQueue' = [queue |-> nx.queue, running |-> nx.running]
  /\ storage' = [storage EXCEPT ![pndCalls[c].key] = pndCalls[c].items]
  /\ pndCalls' = [pndCalls EXCEPT ![c].pc = "done"]
  /\ UNCHANGED stored0
  /\ UNCHANGED << portState, ports, listeners, reqHandlers, unregFns,
                  handlerOps, inbox, outbox, tasks, queue, running, submitted,
                  started, promises, bcast >>
  /\ UNCHANGED << coordVars, storeVars, clientVars >>

PndAppend(key, ops) == PndCall("append", key, ops, << >>)
PndRemove(key, opHashes) == PndCall("remove", key, << >>, opHashes)

\* any list may be stored when the first call is made
PndInit ==
  /\ Constructed
  /\ store = [status |-> "Locked", n |-> 0, by |-> "none"]
  /\ startPc = "done"
  /\ storage \in [PndKeys -> StoredLists]
  /\ stored0 = storage
  /\ pndCalls = << >>
  /\ setQueue = [queue |-> << >>, running |-> {}]

PndNext ==
  \/ \E k \in PndKeys, ops \in AppendArgs : PndAppend(k, ops)
  \/ \E k \in PndKeys, opHashes \in RemoveArgs : PndRemove(k, opHashes)
  \/ \E c \in 1..Len(pndCalls) : PndGot(c)
  \/ \E c \in 1..Len(pndCalls) : PndSet(c)

PndSpec == PndInit /\ [][PndNext]_vars

\* envelopes delivered to the server beyond the requests sent
Duplicates == Len(inbox["p1"]) + Len(inbox["p2"]) + Len(tasks) - TotalReqs

\* The channel delivers at least once: the envelope in front of the server
\* will arrive a second time.
DuplicateMessage(p) ==
  /\ inbox[p] # << >>
  /\ Duplicates < MaxDups
  /\ inbox' = [inbox EXCEPT ![p] = <<Head(@)>> \o @]
  /\ UNCHANGED extVars
  /\ UNCHANGED << portState, ports, listeners, reqHandlers, unregFns,
                  handlerOps, outbox, tasks, queue, running, submitted,
                  started, promises, bcast >>

\* The back end behind a channel that may deliver twice.
DupNext ==
  \/ \E p \in Ports : Connect(p)
  \/ \E p \in Ports, payload \in Payloads : ClientRequest(p, payload)
  \/ \E p \in Ports : DuplicateMessage(p)
  \/ \E p \in Ports : ClientReceive(p)
  \/ \E p \in Ports : HandleMessage(p)
  \/ \E i \in 1..Len(tasks) : HandleRequestSettles(i)
  \/ \E i \in 1..Len(tasks), ok \in BOOLEAN : JobFinish(i, ok)

DupSpec == Init /\ [][DupNext]_vars


(* ---------------------------- properties ------------------------------ *)
Tasks == 1..Len(tasks)
Done(i) == tasks[i].pc = "done"
JobSettled(i) == tasks[i].job # "none"

\* C1: at most one job of the request queue is executing at any time, and a
\* job that is executing has not settled: executions never overlap.
C1_MutualExclusion ==
  /\ Cardinality(running) <= 1
  /\ \A i \in running : i \in Tasks /\ ~JobSettled(i)
  /\ \A i \in Tasks : i \in Range(queue) => i \notin running /\ ~JobSettled(i)

\* requests of two channels are in the queue at once: one executes, one waits
C1_Witness ==
  \E i \in running : \E j \in Range(queue) : tasks[i].port # tasks[j].port

\* C2: jobs start in exactly the order in which they were added to the queue,
\* and two jobs of requests received on one channel start in the order the
\* channel sent them (a channel numbers its requests in send order).
C2_FifoOrder ==
  /\ started = SubSeq(submitted, 1, Len(started))
  /\ \A a, b \in 1..Len(started) :
       (a < b /\ tasks[started[a]].port = tasks[started[b]].port)
         => tasks[started[a]].reqId < tasks[started[b]].reqId

\* three jobs were waiting or executing at once and all have started: two of
\* one channel, and between them one of the other channel
C2_Witness ==
  /\ Len(started) = 3
  /\ tasks[started[1]].port = tasks[started[3]].port
  /\ tasks[started[2]].port # tasks[started[1]].port
  /\ Len(submitted) = 3
  /\ \A i \in Tasks : JobSettled(i) => i = started[1] \/ i = started[2]
  /\ inbox = [p \in Ports |-> << >>]

\* C3: every Request received by the server results in exactly one terminal
\* envelope (Response or Error) with its reqId, whatever the payload.
C3_ExactlyOneTerminal ==
  \A i \in Tasks :
    Done(i) =>
      /\ Len(tasks[i].posts) = 1
      /\ tasks[i].posts[1].type \in {"Res", "Err"}
      /\ tasks[i].posts[1].reqId = tasks[i].reqId

\* C4: a job that rejects leaves the queue working: it gives its slot back,
\* no job waits while the slot is free, and a job that settles after it
\* settles with the outcome of its own request.
C4_FailureIsolation ==
  /\ \A i \in running : ~JobSettled(i)
  /\ queue # << >> => running # {}
  /\ \A i \in Tasks :
       /\ tasks[i].job = "ok" =>
            /\ tasks[i].returned = <<processRequest(tasks[i].data)>>
            /\ ~tasks[i].threw
       /\ tasks[i].job = "failed" =>
            /\ tasks[i].threw
            /\ tasks[i].posts = <<ErrEnv(tasks[i].reqId, ErrorData(tasks[i].thrown))>>

\* a job failed, and a job submitted after it ran and was answered
C4_Witness ==
  \E i, j \in Tasks :
    /\ i < j
    /\ tasks[i].job = "failed"
    /\ tasks[j].job = "ok"
    /\ tasks[j].posts = <<ResEnv(tasks[j].reqId, processRequest(tasks[j].data))>>

\* C5: when a handler throws an error that has a message, the server sends
\* one Error envelope with the request's reqId and that message, and no
\* Response envelope for the request.
C5_ErrorEnvelope ==
  \A i \in Tasks :
    (tasks[i].threw /\ IsObject(tasks[i].thrown) /\ HasMessage(tasks[i].thrown))
      => /\ Done(i)
         /\ tasks[i].posts = <<ErrEnv(tasks[i].reqId, Str(tasks[i].thrown.message))>>

\* a handler registered after the back end's threw an error with a message
\* and the Error envelope went out
C5_Witness ==
  \E i \in Tasks :
    /\ tasks[i].threw
    /\ tasks[i].thrown = Err("Invalid password")
    /\ tasks[i].called[Len(tasks[i].called)] \in OtherHandlers
    /\ tasks[i].escaped = "no"

\* C6: for any thrown value whatsoever the multiplexer sends an Error
\* envelope with the reqId, with the generic message when the value has no
\* message, and no exception leaves the request task. Stated for requests
\* whose port is open, where respond itself cannot throw.
C6_AnyThrownValue ==
  \A i \in Tasks :
    (tasks[i].threw /\ CanPost(tasks[i].port))
      => /\ Done(i)
         /\ tasks[i].escaped = "no"
         /\ tasks[i].posts =
              <<ErrEnv(tasks[i].reqId,
                       IF IsObject(tasks[i].thrown) /\ HasMessage(tasks[i].thrown)
                         THEN Str(tasks[i].thrown.message)
                         ELSE Str(DEFAULT_ERROR_MESSAGE))>>

\* C7: handlers are called in the order of the array the request iterates,
\* which is the registration order; every handler called before the last one
\* returned undefined; a defined result is the data of the Response, and no
\* handler after the one that returned it is called.
C7_DispatchPrecedence ==
  \A i \in Tasks :
    LET t == tasks[i] IN
    /\ t.called = SubSeq(t.hs, 1, Len(t.called))
    /\ t.live => t.hs = reqHandlers
    /\ Len(t.returned) <= Len(t.called)
    /\ \A k \in 1..Len(t.returned) :
         t.returned[k] # Undefined
           => /\ k = Len(t.called)
              /\ Done(i)
              /\ \A m \in 1..(k - 1) : t.returned[m] = Undefined
              /\ t.posts # << >>
              /\ t.posts[1] = ResEnv(t.reqId, t.returned[k])
              /\ \A m \in 1..Len(t.posts) : t.posts[m].type = "Res" => m = 1

\* the second of three handlers returned data after the first returned
\* undefined; it was answered and the third handler was not called
C7_Witness ==
  \E i \in Tasks :
    LET t == tasks[i] IN
    /\ Len(t.hs) = 3
    /\ Len(t.called) = 2
    /\ t.returned = <<Undefined, Obj("OtherResponse")>>
    /\ t.posts = <<ResEnv(t.reqId, Obj("OtherResponse"))>>
    /\ Done(i)

\* C8: a broadcast reaches every registered channel whose own send does not
\* fail, also when the send to another channel fails.
C8_BestEffortBroadcast ==
  \A p \in Range(bcast.registered) : p \in bcast.open => p \in bcast.reached

\* C9: once onDisconnect has unregistered a channel, no broadcast calls
\* postMessage on it and no message arriving on it starts a request task;
\* unregistering removes that channel alone, so the channels that remain get
\* the broadcasts (each one the forEach arrives at); and unregistering it
\* again changes nothing.
C9_Step ==
  \A p \in Ports :
    /\ (portState[p] = "closed" /\ portState'[p] = "gone")
         => /\ Range(ports') = Range(ports) \ {p}
            /\ listeners' = listeners \ {p}
            /\ \A a, b \in 1..Len(ports') :
                 a < b => \E c, d \in 1..Len(ports) :
                            c < d /\ ports[c] = ports'[a] /\ ports[d] = ports'[b]
    /\ portState[p] = "gone"
         => /\ Len(inbox'[p]) < Len(inbox[p]) => tasks' = tasks
            /\ bcast'.n # bcast.n =>
                 /\ p \notin Range(bcast'.tried)
                 /\ p \notin bcast'.reached
                 /\ bcast'.registered = ports
                 /\ \A k \in 1..Len(ports) :
                      (\A m \in 1..k : CanPost(ports[m])) => ports[k] \in bcast'.reached
                 /\ \A q \in bcast'.reached :
                      outbox'[q] # << >> /\ SubEnv(Obj("StateUpdated")) \in Range(outbox'[q])

C9_Idempotent ==
  \A p \in Ports :
    portState[p] = "gone" =>
      /\ p \notin Range(ports)
      /\ p \notin listeners
      /\ removePort(Registry, p) = Registry

C10_Step ==
  \A p \in Ports :
    (portState[p] = "open" /\ portState'[p] # "open")
      => \A i \in 1..Len(promises[p]) :
           promises'[p][i] =
             IF promises[p][i].st = "pending"
               THEN Rejected(Err(ChannelClosed))
               ELSE promises[p][i]

C10_NonePending ==
  \A p \in Ports :
    portState[p] \in {"closed", "gone"}
      => \A i \in 1..Len(promises[p]) : promises[p][i].st # "pending"

\* C10: closing a channel rejects each pending promise with the
\* channel-closed error, and no promise of a closed channel is pending.
C10_ChannelClosedRejects == []C10_NonePending /\ [][C10_Step]_vars

\* a channel closed with two requests unanswered: both are rejected
C10_Witness ==
  \E p \in Ports :
    /\ portState[p] \in {"closed", "gone"}
    /\ Len(promises[p]) = 2
    /\ \A i \in 1..2 : promises[p][i] = Rejected(Err(ChannelClosed))

\* the requests of type ty the server has taken off a port
TasksOf(ty) == { i \in Tasks : tasks[i].data.type = ty }
\* the job that waits for the outstanding confirmation
Suspended == IF conf.id = 0 THEN {} ELSE {conf.owners[conf.id]} \cap running
\* envelopes in flight to front end p that equal env
Copies(p, env) == Cardinality({ k \in 1..Len(outbox[p]) : outbox[p][k] = env })

\* C11: while a Sign job is suspended for approval the request queue stays
\* available: a ConfirmationRequest handed to the request handler is admitted,
\* it is not kept waiting in the queue behind the Sign job.
C11_ConfirmAdmitted ==
  Suspended # {} =>
    \A j \in Range(queue) : tasks[j].data.type # "ConfirmationRequest"

\* C12: a confirm / decline signal whose id is not the outstanding
\* confirmation id changes nothing: the wait is not resolved, the outstanding
\* id is kept, no notification goes out.
C12_ForeignIdIgnored ==
  [][ ( /\ signals' # signals
        /\ signals'[Len(signals')].id # conf.id )
      => /\ conf' = conf
         /\ notes' = notes
         /\ outbox' = outbox ]_vars

\* a signal with another id arrived while a confirmation was outstanding,
\* which still is
C12_Witness ==
  \E n \in 1..Len(signals) :
    /\ signals[n].outstanding # 0
    /\ signals[n].id # signals[n].outstanding
    /\ conf.id = signals[n].outstanding

\* C13: the signature request of sign() follows the decision sent for its
\* confirmation while it was outstanding: after Confirm(id, true) it is
\* answered with the signature, after Confirm(id, false) with the declined
\* error.
C13_SignFollowsDecision ==
  \A s \in TasksOf("SignRequest") :
    \A j \in TasksOf("ConfirmationRequest") :
      ( /\ Done(s)
        /\ ConfirmationOf(s) # 0
        /\ tasks[j].data.id = ConfirmationOf(s)
        /\ tasks[j].seen = ConfirmationOf(s) )
      => tasks[s].posts =
           << IF tasks[j].data.confirmed
                THEN ResEnv(tasks[s].reqId, Obj("SignResponse"))
                ELSE ErrEnv(tasks[s].reqId, Str(DeclinedMessage)) >>

\* C14: a confirmation that expired is no longer outstanding; exactly one
\* ConfirmationExpired notification with its id was broadcast, and each front
\* end registered at that moment is sent it once, the others never; and the
\* request that waited for it is answered with the declined error.
C14_Expiry ==
  \A k \in 1..Len(conf.outcomes) :
    LET ns == { n \in 1..Len(notes) :
                  notes[n].type = "ConfirmationExpired" /\ notes[n].id = k }
        s == conf.owners[k]
    IN IF conf.outcomes[k] = "expired"
         THEN /\ conf.id # k
              /\ Cardinality(ns) = 1
              /\ \A n \in ns : \A p \in Ports :
                   Copies(p, SubEnv(WithId("ConfirmationExpired", k))) =
                     (IF p \in Range(notes[n].registered) THEN 1 ELSE 0)
              /\ JobSettled(s) =>
                   /\ tasks[s].job = "failed"
                   /\ tasks[s].posts = <<ErrEnv(tasks[s].reqId, Str(DeclinedMessage))>>
         ELSE ns = {}

\* a confirmation expired with two front ends registered, and its request
\* has been answered
C14_Witness ==
  \E k \in 1..Len(conf.outcomes) :
    /\ conf.outcomes[k] = "expired"
    /\ Done(conf.owners[k])
    /\ \E n \in 1..Len(notes) :
         /\ notes[n].type = "ConfirmationExpired" /\ notes[n].id = k
         /\ Len(notes[n].registered) = 2

\* C15: every secretKey() call on the signer is rejected with its fixed error
\* and sends nothing; the signer's front end never asks the back end to
\* reveal a private key or a mnemonic.
C15_SecretKeyFails ==
  /\ \A k \in CallsOf("secretKey") :
       /\ calls[k].result = Rejected(Err(SecretKeyMessage))
       /\ calls[k].sent = 0
  /\ \A p \in SignerPorts :
       /\ \A k \in 1..Len(inbox[p]) :
            inbox[p][k].data.type \in {"SignRequest", "ConfirmationRequest"}
       /\ \A i \in Tasks :
            tasks[i].port = p =>
              tasks[i].data.type \in {"SignRequest", "ConfirmationRequest"}

\* secretKey() was called while a signature request waits for its approval
C15_Witness ==
  /\ Suspended # {}
  /\ calls # << >>
  /\ calls[Len(calls)].method = "secretKey"

\* C16: the store is changed only by code that runs inside a job of the
\* request queue, start-up included.
C16_MutatedInsideJobs == store.by \in {"none", "job"}

\* C17: every change of the store is followed by exactly one StateUpdated
\* broadcast, which reaches every registered channel whose transport is
\* open; a successful Unlock is answered with its Response, a failed request
\* with an Error envelope that carries the failure's message.
C17_MutationBroadcast ==
  /\ bcast.n = store.n
  /\ \A p \in Range(bcast.registered) \cap bcast.open : p \in bcast.reached
  /\ \A i \in TasksOf("UnlockRequest") :
       (Done(i) /\ tasks[i].escaped = "no") =>
         tasks[i].posts =
           << IF tasks[i].job = "ok"
                THEN ResEnv(tasks[i].reqId, Obj("UnlockResponse"))
                ELSE ErrEnv(tasks[i].reqId, Str("Invalid password")) >>

\* every append / remove call made has returned
PndAllDone ==
  /\ pndCalls # << >>
  /\ \A c \in 1..Len(pndCalls) : pndCalls[c].pc = "done"
\* each call was made after the calls before it had returned
PndOneByOne == \A c \in 1..Len(pndCalls) : ~pndCalls[c].overlapped
\* the entries that are not of hash h, in their order
Without(list, h) == SelectSeq(list, LAMBDA x : x.hash # h)
\* the entries appended by the calls 1..c, the newest call first
RECURSIVE Appended(_)
Appended(c) == IF c = 0 THEN << >> ELSE pndCalls[c].ops \o Appended(c - 1)

\* C18: from any stored list, appends of operations with hashes O1 and O2
\* made one after another and then remove of O1's hash leave the appended
\* O2 entries followed by the original entries that are not of hash O1; from
\* an empty list, appending O1 and O2 and removing O1 leaves exactly [O2].
C18_RoundTrip ==
  \A k \in PndKeys :
    LET n == Len(pndCalls)
    IN ( /\ n >= 2
         /\ PndAllDone
         /\ PndOneByOne
         /\ \A c \in 1..(n - 1) : pndCalls[c].kind = "append"
         /\ pndCalls[n].kind = "remove"
         /\ pndCalls[n].opHashes = <<"O1">> )
       => /\ storage[k] = Without(Appended(n - 1), "O1") \o Without(stored0[k], "O1")
          /\ ( /\ stored0[k] = << >>
               /\ { pndCalls[c].ops : c \in 1..(n - 1) }
                    = { <<PndOp("O1", "new")>>, <<PndOp("O2", "new")>> }
               /\ n = 3 )
             => storage[k] = <<PndOp("O2", "new")>>

\* O1 and O2 were appended to a list that held an O1 entry and another
\* entry, then O1 was removed, one call after the other
C18_Witness ==
  /\ PndAllDone
  /\ PndOneByOne
  /\ Len(pndCalls) = 3
  /\ pndCalls[1].kind = "append" /\ pndCalls[1].ops = <<PndOp("O1", "new")>>
  /\ pndCalls[2].kind = "append" /\ pndCalls[2].ops = <<PndOp("O2", "new")>>
  /\ pndCalls[3].kind = "remove" /\ pndCalls[3].opHashes = <<"O1">>
  /\ \E k \in PndKeys :
       /\ stored0[k] = <<PndOp("O1", "old"), PndOp("O3", "old")>>
       /\ storage[k] = <<PndOp("O2", "new"), PndOp("O3", "old")>>

\* what a call makes of a list when nothing else runs
PndApply(list, call) ==
  IF call.kind = "append"
    THEN call.ops \o list
    ELSE SelectSeq(list, LAMBDA x : \A h \in 1..Len(call.opHashes) :
                                      x.hash # call.opHashes[h])
\* the list after the calls order[k], order[k+1], ... applied one after another
RECURSIVE PndInOrder(_, _, _)
PndInOrder(list, order, k) ==
  IF k > Len(pndCalls) THEN list
  ELSE PndInOrder(PndApply(list, pndCalls[order[k]]), order, k + 1)
PndOrders ==
  { f \in [1..Len(pndCalls) -> 1..Len(pndCalls)] :
      \A a, b \in 1..Len(pndCalls) : a # b => f[a] # f[b] }

\* C19: when concurrent append and remove calls on one key have all
\* returned, the stored list is what the calls give when applied one after
\* another in some order.
C19_NoLostUpdate ==
  PndAllDone =>
    \A k \in PndKeys :
      \E order \in PndOrders : storage[k] = PndInOrder(stored0[k], order, 1)

\* C20: of the deliveries of one Request envelope (same channel, same reqId)
\* at most one has its job executed by the request queue.
C20_AtMostOnce ==
  \A i, j \in Range(started) :
    (tasks[i].port = tasks[j].port /\ tasks[i].reqId = tasks[j].reqId) => i = j

\* Every case of processRequest: one front end sends requests of all the
\* types the switch handles; a SignRequest waits for its confirmation.
RequestPayloads == { Obj(ty) : ty \in HandledTypes }

PairClientRequest(p, payload) == SendRequest(p, payload, MaxPairReqs)

PairNext ==
  \/ \E p \in MuxPorts : Connect(p)
  \/ \E p \in MuxPorts, payload \in RequestPayloads : PairClientRequest(p, payload)
  \/ \E p \in MuxPorts : HandleMessage(p)
  \/ \E i \in 1..Len(tasks) : RequestsConfirmation(i)
  \/ ConfirmationExpires
  \/ \E i \in 1..Len(tasks), ok \in BOOLEAN : JobFinish(i, ok)
  \/ \E p \in MuxPorts : ClientReceive(p)

PairSpec == Init /\ [][PairNext]_vars

\* The front ends revalidate: each StateUpdated notification makes the front
\* end fetch the state with a GetStateRequest, while one of them keeps
\* sending requests that change the store.
StateUpdated == SubEnv(Obj("StateUpdated"))
MutatingPayloads == { Obj("UnlockRequest") }

\* the number of the broadcast that put the notification at the head of
\* outbox[p] on the wire: no port closes, so the notifications waiting on p
\* are those of the latest broadcasts
NotifiedVersion(p) ==
  bcast.n + 1
    - Cardinality({ k \in 1..Len(outbox[p]) : outbox[p][k] = StateUpdated })

\* the subscription handler, case StateUpdated: revalidate(), which calls
\* fetchState: request({type: GetStateRequest})
Revalidate(p) ==
  /\ portState[p] = "open"
  /\ outbox[p] # << >>
  /\ Head(outbox[p]) = StateUpdated
  /\ Len(fetches) < MaxFetches
  /\ outbox' = [outbox EXCEPT ![p] = Tail(@)]
  /\ promises' = [promises EXCEPT ![p] = Append(@, Pending)]
  /\ inbox' = [inbox EXCEPT ![p] =
                 Append(@, ReqEnv(Len(promises[p]) + 1, Obj("GetStateRequest")))]
  /\ fetches' = Append(fetches, [port |-> p, reqId |-> Len(promises[p]) + 1,
                                 version |-> NotifiedVersion(p)])
  /\ UNCHANGED << portState, ports, listeners, reqHandlers, unregFns,
                  handlerOps, tasks, queue, running, submitted, started,
                  bcast, confirmationIdRef, confirmation >>
  /\ UNCHANGED << coordVars, storeVars, pndVars >>

FetchClientRequest(p, payload) == SendRequest(p, payload, MaxFetchReqs)

FetchNext ==
  \/ \E p \in Ports : Connect(p)
  \/ \E p \in MuxPorts, payload \in MutatingPayloads : FetchClientRequest(p, payload)
  \/ \E p \in Ports : HandleMessage(p)
  \/ \E i \in 1..Len(tasks), ok \in BOOLEAN : JobFinish(i, ok)
  \/ \E p \in Ports : Revalidate(p)
  \/ \E p \in Ports : ClientReceive(p)

FetchSpec == Init /\ [][FetchNext]_vars

\* Pending operations of several accounts and networks: account hashes are
\* base58 strings, a network id may hold any character.
KeyAccs == {"tz1", "tz2"}
KeyNets == {"main", "main_tz1"}
KeyPairs == KeyAccs \X KeyNets
KeyLists == { << >>, <<PndOp("O1", "old"), PndOp("O3", "old")>> }

KeyAppend(accPkh, netId, ops) ==
  /\ Len(pndCalls) < MaxKeyCalls
  /\ PndAppend(getKey(accPkh, netId), ops)

KeyRemove(accPkh, netId, opHashes) ==
  /\ Len(pndCalls) < MaxKeyCalls
  /\ PndRemove(getKey(accPkh, netId), opHashes)

KeyInit ==
  /\ Constructed
  /\ store = [status |-> "Locked", n |-> 0, by |-> "none"]
  /\ startPc = "done"
  /\ storage \in [{ getKey(pair[1], pair[2]) : pair \in KeyPairs } -> KeyLists]
  /\ stored0 = storage
  /\ pndCalls = << >>
  /\ setQueue = [queue |-> << >>, running |-> {}]

KeyNext ==
  \/ \E pair \in KeyPairs :
       KeyAppend(pair[1], pair[2], <<PndOp("O1", "new"), PndOp("O2", "new")>>)
  \/ \E pair \in KeyPairs : KeyRemove(pair[1], pair[2], <<"O1">>)
  \/ \E c \in 1..Len(pndCalls) : PndGot(c)
  \/ \E c \in 1..Len(pndCalls) : PndSet(c)

KeySpec == KeyInit /\ [][KeyNext]_vars

\* The front end's confirmation state: sign() and sendOperations() start,
\* the back end notifies with the ids of the calls made and with an id of
\* another front end, and the window resets its confirmation.
NoConfirmation == [id |-> 0, payload |-> None]

\* resetConfirmation(): confirmationIdRef.current = null; setConfirmation(null)
resetConfirmation(cs) == [ref |-> 0, confirmation |-> NoConfirmation]

\* faulty variant of subscribe: the notifications are taken whatever their id
subscribeAnyId(cs, msg) ==
  IF msg.type = "ConfirmationRequested"
    THEN [cs EXCEPT !.confirmation = [id |-> msg.id, payload |-> msg.text]]
  ELSE IF msg.type = "ConfirmationExpired" THEN resetConfirmation(cs)
  ELSE cs

\* the handler given to intercom.subscribe, cases ConfirmationRequested and
\* ConfirmationExpired; cs is the ref and the confirmation displayed
subscribe(cs, msg) ==
  IF msg.type = "ConfirmationRequested"
    THEN IF msg.id = cs.ref
           THEN [cs EXCEPT !.confirmation = [id |-> msg.id, payload |-> msg.text]]
           ELSE cs
  ELSE IF msg.type = "ConfirmationExpired"
    THEN IF msg.id = cs.ref THEN resetConfirmation(cs) ELSE cs
  ELSE cs

\* TaquitoWallet.sendOperations(opParams): a fresh id, onBeforeSend(id), then
\* the OperationsRequest is sent
WalletSendOperations(p) ==
  /\ portState[p] = "open"
  /\ SignerCalls < MaxSignerCalls
  /\ LET id == 0 - (MaxSignerCalls + Cardinality(CallsOf("sendOperations")) + 1)
     IN /\ calls' = Append(calls, [method |-> "sendOperations", port |-> p,
                                   id |-> id, reqId |-> Len(promises[p]) + 1,
                                   sent |-> 1, result |-> Pending])
        /\ confirmationIdRef' =
             [confirmationIdRef EXCEPT ![p] = onBeforeSign(@, id)]
        /\ Send(p, <<WithId("OperationsRequest", id)>>)
  /\ UNCHANGED << portState, ports, listeners, reqHandlers, unregFns,
                  handlerOps, outbox, tasks, queue, running, submitted,
                  started, bcast, conf, notes, signals, fetches,
                  confirmation >>
  /\ UNCHANGED << storeVars, pndVars >>

\* the back end broadcasts a confirmation notification
BackEndNotifies(ty, id, payload) ==
  /\ Len(notes) < MaxNotes
  /\ LET b == broadcast(ports)
         msg == [WithId(ty, id) EXCEPT !.text = payload]
     IN /\ notes' = Append(notes, [type |-> ty, id |-> id,
                                   registered |-> b.registered,
                                   reached |-> b.reached])
        /\ outbox' = [p \in Ports |->
                        outbox[p] \o (IF p \in b.reached
                                        THEN <<SubEnv(msg)>> ELSE << >>)]
  /\ UNCHANGED << portState, ports, listeners, reqHandlers, unregFns,
                  handlerOps, inbox, tasks, queue, running, submitted,
                  started, promises, bcast, conf, calls, signals >>
  /\ UNCHANGED << storeVars, pndVars, clientVars >>

\* the front end receives a confirmation notification
Subscribed(p) ==
  /\ portState[p] = "open"
  /\ outbox[p] # << >>
  /\ Head(outbox[p]).type = "Sub"
  /\ Head(outbox[p]).data.type \in {"ConfirmationRequested", "ConfirmationExpired"}
  /\ LET cs == subscribe([ref |-> confirmationIdRef[p],
                          confirmation |-> confirmation[p]],
                         Head(outbox[p]).data)
     IN /\ confirmationIdRef' = [confirmationIdRef EXCEPT ![p] = cs.ref]
        /\ confirmation' = [confirmation EXCEPT ![p] = cs.confirmation]
  /\ outbox' = [outbox EXCEPT ![p] = Tail(@)]
  /\ UNCHANGED << portState, ports, listeners, reqHandlers, unregFns,
                  handlerOps, inbox, tasks, queue, running, submitted,
                  started, promises, bcast, fetches >>
  /\ UNCHANGED << coordVars, storeVars, pndVars >>

\* the confirmation window calls resetConfirmation()
ClientReset(p) ==
  /\ portState[p] = "open"
  /\ LET cs == resetConfirmation([ref |-> confirmationIdRef[p],
                                  confirmation |-> confirmation[p]])
     IN /\ confirmationIdRef' = [confirmationIdRef EXCEPT ![p] = cs.ref]
        /\ confirmation' = [confirmation EXCEPT ![p] = cs.confirmation]
  /\ UNCHANGED << portState, ports, listeners, reqHandlers, unregFns,
                  handlerOps, inbox, outbox, tasks, queue, running, submitted,
                  started, promises, bcast, fetches >>
  /\ UNCHANGED << coordVars, storeVars, pndVars >>

ClientNext ==
  \/ \E p \in SignerPorts : Connect(p)
  \/ \E p \in SignerPorts : SignerSign(p)
  \/ \E p \in SignerPorts : WalletSendOperations(p)
  \/ \E ty \in {"ConfirmationRequested", "ConfirmationExpired"},
        id \in { calls[k].id : k \in 1..Len(calls) } \cup {1},
        payload \in {"sign", "operations"} : BackEndNotifies(ty, id, payload)
  \/ \E p \in SignerPorts : Subscribed(p)
  \/ \E p \in SignerPorts : ClientReset(p)

ClientSpec == Init /\ [][ClientNext]_vars

\* The two queues side by side: appends and removes of pending operations
\* are made while a front end's requests go through the request queue.
WriteNext ==
  \/ \E p \in MuxPorts : Connect(p)
  \/ \E p \in MuxPorts, payload \in TypedPayloads : MuxClientRequest(p, payload)
  \/ \E p \in MuxPorts : HandleMessage(p)
  \/ \E i \in 1..Len(tasks), ok \in BOOLEAN : JobFinish(i, ok)
  \/ \E k \in PndKeys : PndAppend(k, <<PndOp("O2", "new")>>)
  \/ \E k \in PndKeys : PndRemove(k, <<"O2">>)
  \/ \E c \in 1..Len(pndCalls) : PndGot(c)
  \/ \E c \in 1..Len(pndCalls) : PndSet(c)

WriteSpec == Init /\ [][WriteNext]_vars

\* the request reqId of front end p has been answered or given up
Answered(p, reqId) ==
  \E i \in Tasks : tasks[i].port = p /\ tasks[i].reqId = reqId /\ Done(i)
\* the sign() calls of front end p that still wait for their outcome
WaitingSigns(p) ==
  { k \in CallsOf("sign") : calls[k].port = p /\ ~Answered(p, calls[k].reqId) }

\* C21: a second sign() started before the first one's confirmation is
\* resolved does not replace the first: the front end keeps tracking the id
\* of its earliest call that still waits, the calls are taken in turn.
C21_FirstConfirmationKept ==
  \A p \in SignerPorts :
    WaitingSigns(p) # {} =>
      \E k \in WaitingSigns(p) :
        /\ \A m \in WaitingSigns(p) : k <= m
        /\ confirmationIdRef[p] = calls[k].id

\* C22: a request whose job succeeded is answered with the response type
\* paired with its request type, and with no other request's response type
\* nor a request type; the front end's request() resolves with that type.
C22_Pairing ==
  \A i \in Tasks :
    tasks[i].job = "ok" =>
      LET t == tasks[i]
          ty == t.data.type
          pr == promises[t.port][t.reqId]
      IN /\ ty \in HandledTypes
         /\ t.posts = <<ResEnv(t.reqId, Obj(ResponseTypeOf[ty]))>>
         /\ \A u \in HandledTypes :
              /\ t.posts[1].data.type # u
              /\ u # ty => t.posts[1].data.type # ResponseTypeOf[u]
         /\ pr.st \in {"pending", "resolved"}
         /\ pr.st = "resolved" => pr.val = Obj(ResponseTypeOf[ty])
C22_Witness ==
  \E i, j \in Tasks :
    /\ tasks[i].data.type = "LockRequest"
    /\ tasks[j].data.type = "GetStateRequest"
    /\ \A k \in {i, j} :
         /\ tasks[k].job = "ok"
         /\ promises[tasks[k].port][tasks[k].reqId].st = "resolved"

\* C23: each job added to the request queue starts exactly once, a job that
\* failed is not started again, and the promise of a job settles with the
\* result or the error of that job's own request.
C23_ExecutedOnce ==
  /\ \A a, b \in 1..Len(started) : started[a] = started[b] => a = b
  /\ \A a, b \in 1..Len(submitted) : submitted[a] = submitted[b] => a = b
  /\ Range(started) \subseteq Range(submitted)
  /\ \A i \in Tasks :
       /\ JobSettled(i) =>
            /\ i \in Range(started)
            /\ i \notin running
            /\ i \notin Range(queue)
       /\ tasks[i].job = "ok" =>
            /\ tasks[i].returned = <<processRequest(tasks[i].data)>>
            /\ tasks[i].thrown = Undefined
       /\ tasks[i].job = "failed" =>
            /\ tasks[i].returned = << >>
            /\ tasks[i].thrown = ActionError(tasks[i])
\* a job failed, jobs of other requests ran after it, and nothing is left
C23_Witness ==
  /\ Len(submitted) = 3
  /\ Len(started) = 3
  /\ running = {}
  /\ tasks[started[1]].job = "failed"
  /\ tasks[started[2]].job = "ok"
  /\ tasks[started[3]].job = "ok"
  /\ tasks[started[2]].data # tasks[started[3]].data

\* the request task i ended after every handler it called returned undefined
Dropped(i) ==
  /\ i \in 1..Len(tasks)
  /\ Done(i)
  /\ ~tasks[i].threw
  /\ \A k \in 1..Len(tasks[i].returned) : tasks[i].returned[k] = Undefined
C24_NoEnvelope ==
  \A i \in Tasks :
    Dropped(i) =>
      /\ tasks[i].posts = << >>
      /\ \A k \in 1..Len(outbox[tasks[i].port]) :
           LET env == outbox[tasks[i].port][k]
           IN env.type \in {"Res", "Err"} => env.reqId # tasks[i].reqId
      /\ promises[tasks[i].port][tasks[i].reqId].st \in {"pending", "rejected"}
      /\ promises[tasks[i].port][tasks[i].reqId].st = "rejected" =>
           portState[tasks[i].port] # "open"
C24_DropStep ==
  \A i \in 1..Len(tasks') :
    (Dropped(i)' /\ ~Dropped(i)) =>
      /\ ports' = ports
      /\ listeners' = listeners
      /\ reqHandlers' = reqHandlers
      /\ outbox' = outbox

\* C24: when every handler called for a Request returned undefined, the
\* server sends no Response and no Error with that reqId, and the step that
\* drops the request leaves the registered ports and handlers as they were.
C24_SilentDrop == [] C24_NoEnvelope /\ [][C24_DropStep]_vars
\* requests were dropped after handleRequest returned undefined without a
\* job, and after the job of a type without a case returned undefined, with
\* a second handler registered and asked too
C24_Witness ==
  \E i \in Tasks :
    /\ Dropped(i)
    /\ Len(tasks[i].returned) = 2
    /\ tasks[i].job = "ok"
    /\ portState[tasks[i].port] = "open"

\* C25: a Response or Error on the wire of a port was posted by the task of
\* a request that arrived on that port and carries that request's reqId; the
\* front end's promise settles with what its own request produced.
C25_Routing ==
  /\ \A p \in Ports :
       \A k \in 1..Len(outbox[p]) :
         outbox[p][k].type \in {"Res", "Err"} =>
           \E i \in Tasks :
             /\ tasks[i].port = p
             /\ tasks[i].reqId = outbox[p][k].reqId
             /\ outbox[p][k] \in Range(tasks[i].posts)
  /\ \A i \in Tasks :
       LET pr == promises[tasks[i].port][tasks[i].reqId]
       IN /\ \A k \in 1..Len(tasks[i].posts) :
               tasks[i].posts[k].reqId = tasks[i].reqId
          /\ pr.st = "resolved" =>
               \E k \in 1..Len(tasks[i].posts) :
                 /\ tasks[i].posts[k].type = "Res"
                 /\ tasks[i].posts[k].data = pr.val
\* requests with the same reqId from the two ports were in flight together:
\* one was answered with a Response, the other with an Error, both on the wire
C25_Witness ==
  \E i, j \in Tasks :
    /\ tasks[i].port # tasks[j].port
    /\ tasks[i].reqId = tasks[j].reqId
    /\ tasks[i].job = "ok"
    /\ tasks[j].job = "failed"
    /\ ResEnv(tasks[i].reqId, processRequest(tasks[i].data))
         \in Range(outbox[tasks[i].port])
    /\ \E k \in 1..Len(outbox[tasks[j].port]) :
         outbox[tasks[j].port][k].type = "Err"

\* the envelopes on the wire of the ports
OnWire == UNION { Range(outbox[p]) : p \in Ports }
Committed == { i \in Tasks : tasks[i].job = "ok" /\ tasks[i].data.type \in MutatingTypes }
\* the state the job of task j found in the store: jobs run one at a time in
\* the order of `started`, so it is the state left by the jobs before it
StateReadBy(j) ==
  Cardinality({ a \in 1..Len(started) :
                  /\ started[a] \in Committed
                  /\ \E b \in (a + 1)..Len(started) : started[b] = j })

\* C27: StateUpdated is broadcast only once the mutation of the job is in
\* the store, and the GetStateRequest a front end sends on a notification is
\* answered with a state that includes the mutation notified.
C27_BroadcastAfterCommit ==
  /\ bcast.n <= store.n
  /\ store.n = Cardinality(Committed)
  /\ \A k \in 1..Len(fetches) :
       /\ fetches[k].version \in 1..store.n
       /\ \A j \in Tasks :
            (/\ tasks[j].port = fetches[k].port
             /\ tasks[j].reqId = fetches[k].reqId
             /\ tasks[j].job = "ok")
              => StateReadBy(j) >= fetches[k].version
\* a front end fetched the state on the notification of the second mutation
C27_Witness ==
  \E k \in 1..Len(fetches), j \in Tasks :
    /\ fetches[k].version = 2
    /\ tasks[j].port = fetches[k].port
    /\ tasks[j].reqId = fetches[k].reqId
    /\ tasks[j].job = "ok"
    /\ promises[tasks[j].port][tasks[j].reqId].st = "resolved"

\* every job added to the queue is waiting, executing or settled; a settled
\* job holds no slot; a job waits only while another executes; and a job that
\* succeeded on an open port has its Response posted
C28_JobsKept ==
  /\ \A i \in Range(submitted) :
       \/ i \in Range(queue) /\ ~JobSettled(i)
       \/ i \in running /\ ~JobSettled(i)
       \/ JobSettled(i) /\ i \notin running /\ i \notin Range(queue)
  /\ queue # << >> => running # {}
  /\ \A i \in Tasks :
       (tasks[i].job = "ok" /\ tasks[i].escaped = "no"
          /\ processRequest(tasks[i].data) # Undefined)
         => tasks[i].posts = <<ResEnv(tasks[i].reqId, processRequest(tasks[i].data))>>
\* a port closing or being unregistered leaves the queue and the jobs alone
C28_CloseStep ==
  portState' # portState =>
    UNCHANGED << queue, running, submitted, started, tasks, store >>

\* C28: a port that closes or disconnects cancels no job: its jobs stay in
\* the queue and run; a response that cannot be posted on the closed port
\* still frees the slot, and the jobs of the other ports run and are answered.
C28_NoCancellation == [] C28_JobsKept /\ [][C28_CloseStep]_vars
\* the job of a closed port ran, its response could not be posted, and a job
\* of the other port that waited behind it ran and was answered on the wire
C28_Witness ==
  \E a, b \in 1..Len(started) :
    LET i == started[a]
        j == started[b]
    IN /\ a < b
       /\ tasks[i].port # tasks[j].port
       /\ portState[tasks[i].port] # "open"
       /\ tasks[i].job = "ok"
       /\ tasks[i].data.type \in MutatingTypes
       /\ tasks[i].escaped = "post"
       /\ store.n >= 1
       /\ tasks[j].job = "ok"
       /\ ResEnv(tasks[j].reqId, processRequest(tasks[j].data))
            \in Range(outbox[tasks[j].port])

\* the calls made for key k
CallsOn(k) == { c \in 1..Len(pndCalls) : pndCalls[c].key = k }
\* the entries appended for key k by the calls 1..c, the newest call first
RECURSIVE AppendedOn(_, _)
AppendedOn(k, c) ==
  IF c = 0 THEN << >>
  ELSE (IF pndCalls[c].key = k THEN pndCalls[c].ops ELSE << >>)
         \o AppendedOn(k, c - 1)
\* C29: when appends made while no other call was in flight have returned,
\* the list stored for a key is the ops of its latest append, in their
\* order, followed by the list stored before that call, in its order.
C29_Prepends ==
  \A k \in DOMAIN storage :
    ( /\ PndAllDone
      /\ PndOneByOne
      /\ \A c \in CallsOn(k) : pndCalls[c].kind = "append" )
    => storage[k] = AppendedOn(k, Len(pndCalls)) \o stored0[k]
\* two entries were appended to a list of two entries
C29_Witness ==
  \E k \in DOMAIN storage :
    /\ PndAllDone
    /\ PndOneByOne
    /\ stored0[k] = <<PndOp("O1", "old"), PndOp("O3", "old")>>
    /\ storage[k] = <<PndOp("O1", "new"), PndOp("O2", "new"),
                      PndOp("O1", "old"), PndOp("O3", "old")>>

\* the key of each pair has the stated form, different pairs have different
\* keys, and the list of a pair no call was made for is the one stored at
\* the beginning
C30_Keys ==
  /\ \A pair \in KeyPairs :
       getKey(pair[1], pair[2]) = "pndops_" \o pair[2] \o "_" \o pair[1]
  /\ \A pair, other \in KeyPairs :
       pair # other => getKey(pair[1], pair[2]) # getKey(other[1], other[2])
  /\ \A pair \in KeyPairs :
       CallsOn(getKey(pair[1], pair[2])) = {} =>
         storage[getKey(pair[1], pair[2])] = stored0[getKey(pair[1], pair[2])]
\* a step changes the stored lists only when the write of a call completes,
\* and then only the list of that call's key
C30_WriteStep ==
  \A k \in DOMAIN storage :
    storage'[k] # storage[k] =>
      \E c \in CallsOn(k) : /\ pndCalls[c].pc = "set"
                            /\ pndCalls'[c].pc = "done"
                            /\ storage'[k] = pndCalls[c].items

\* C30: the key of (acc, net) is "pndops_" + net + "_" + acc, and the calls
\* made for one pair never change the list stored for another pair.
C30_KeyIsolation == [] C30_Keys /\ [][C30_WriteStep]_vars
\* calls for two pairs overlapped and changed the lists of both, while the
\* list of a pair with the same account and a network id that extends the
\* other one stayed as it was
C30_Witness ==
  /\ PndAllDone
  /\ ~PndOneByOne
  /\ storage[getKey("tz1", "main")] # stored0[getKey("tz1", "main")]
  /\ storage[getKey("tz2", "main")] # stored0[getKey("tz2", "main")]
  /\ stored0[getKey("tz1", "main_tz1")] # << >>
  /\ storage[getKey("tz1", "main_tz1")] = stored0[getKey("tz1", "main_tz1")]

\* the calls whose set() has been called and whose write is not yet stored
SetCalled == { c \in 1..Len(pndCalls) : pndCalls[c].pc = "set" }
\* at most one write executes, a write waits only behind another write, and
\* the writes waiting or executing are those of the calls that called set()
C31_OneWrite ==
  /\ Cardinality(setQueue.running) <= 1
  /\ setQueue.queue # << >> => setQueue.running # {}
  /\ Range(setQueue.queue) \cup setQueue.running = SetCalled
  /\ Range(setQueue.queue) \cap setQueue.running = {}
  /\ \A a, b \in 1..Len(setQueue.queue) :
       setQueue.queue[a] = setQueue.queue[b] => a = b
\* set() puts its write behind the writes waiting; the write that completes
\* is the one that called set() first, it stores its own list; and no step of
\* one queue changes the other queue
C31_WriteStep ==
  /\ \A c \in 1..Len(pndCalls) :
       /\ (pndCalls[c].pc = "get" /\ pndCalls'[c].pc = "set") =>
            /\ setQueue' = IF setQueue.running = {}
                             THEN [queue |-> << >>, running |-> {c}]
                             ELSE [queue |-> Append(setQueue.queue, c),
                                   running |-> setQueue.running]
            /\ UNCHANGED << queue, running, started, tasks, storage >>
       /\ (pndCalls[c].pc = "set" /\ pndCalls'[c].pc = "done") =>
            /\ setQueue.running = {c}
            /\ storage' = [storage EXCEPT ![pndCalls[c].key] = pndCalls[c].items]
            /\ setQueue' = IF setQueue.queue = << >>
                             THEN [queue |-> << >>, running |-> {}]
                             ELSE [queue |-> Tail(setQueue.queue),
                                   running |-> {Head(setQueue.queue)}]
            /\ UNCHANGED << queue, running, started, tasks >>
  /\ pndCalls' = pndCalls => UNCHANGED << setQueue, storage >>

\* C31: the writes of set() are stored one at a time in the order of the
\* set() calls, so the write of the last call is the one that stays; the
\* write queue and the request queue do not wait for one another.
C31_WriteQueue == [] C31_OneWrite /\ [][C31_WriteStep]_vars
\* a write waits behind another write while a job of the request queue
\* executes, and a write was stored before
C31_Witness ==
  /\ setQueue.queue # << >>
  /\ setQueue.running # {}
  /\ running # {}
  /\ \E c \in 1..Len(pndCalls) : pndCalls[c].pc = "done"

\* C32: every request type the front end sends has a case in processRequest,
\* and a request of such a type whose handling has ended was answered with a
\* Response or an Error.
C32_CatalogueAnswered ==
  \A i \in Tasks :
    (Done(i) /\ tasks[i].data.type \in ClientRequestTypes)
      => /\ tasks[i].data.type \in HandledTypes
         /\ tasks[i].posts # << >>

\* C33: a ConfirmationRequested or ConfirmationExpired whose id is not the
\* tracked one changes neither the tracked id nor the confirmation displayed;
\* ConfirmationExpired with the tracked id clears both; ConfirmationRequested
\* with the tracked id displays that id and payload.
C33_Filter ==
  \A p \in SignerPorts :
    (outbox[p] # << >> /\ outbox'[p] = Tail(outbox[p])) =>
      LET msg == Head(outbox[p]).data
      IN /\ msg.id # confirmationIdRef[p] =>
              /\ confirmationIdRef'[p] = confirmationIdRef[p]
              /\ confirmation'[p] = confirmation[p]
         /\ (msg.id = confirmationIdRef[p] /\ msg.type = "ConfirmationExpired") =>
              /\ confirmationIdRef'[p] = 0
              /\ confirmation'[p] = NoConfirmation
         /\ (msg.id = confirmationIdRef[p] /\ msg.type = "ConfirmationRequested") =>
              /\ confirmationIdRef'[p] = confirmationIdRef[p]
              /\ confirmation'[p] = [id |-> msg.id, payload |-> msg.text]
C33_FilterStep == [][C33_Filter]_vars
\* a notification with another id and the request of the tracked id have
\* been received: the tracked confirmation is displayed
C33_Witness ==
  \E p \in SignerPorts :
    /\ outbox[p] = << >>
    /\ Len(notes) = 2
    /\ notes[1].id # confirmationIdRef[p]
    /\ p \in notes[1].reached
    /\ notes[2].id = confirmationIdRef[p]
    /\ notes[2].type = "ConfirmationRequested"
    /\ confirmation[p].id = confirmationIdRef[p]
    /\ confirmation[p].payload = "operations"

\* C34: a confirmation that is displayed has the tracked id.
C34_DisplayedIsTracked ==
  \A p \in Ports :
    confirmation[p] # NoConfirmation => confirmation[p].id = confirmationIdRef[p]

\* C35: a typed request whose job has settled, and whose handling has ended
\* on an open port, has been answered with a Response or an Error.
C35_SettledIsAnswered ==
  \A i \in Tasks :
    (JobSettled(i) /\ Done(i) /\ CanPost(tasks[i].port))
      => tasks[i].posts # << >>

\* the Response or Error to a request that satisfies Earlier is on the wire
\* of its port before that to a request received after it that satisfies Later
WireOrder(Earlier(_), Later(_)) ==
  \A i, j \in Tasks :
    ( /\ tasks[i].port = tasks[j].port
      /\ tasks[i].reqId < tasks[j].reqId
      /\ Earlier(i) /\ Later(j) )
    => LET wire == outbox[tasks[i].port]
       IN \A a, b \in 1..Len(wire) :
            ( /\ wire[a].type \in {"Res", "Err"} /\ wire[a].reqId = tasks[i].reqId
              /\ wire[b].type \in {"Res", "Err"} /\ wire[b].reqId = tasks[j].reqId )
            => a < b
AnyRequest(i) == TRUE
QueuedRequest(i) == handleRequest(tasks[i].data) = "queue"
\* C36 as stated, for the requests received after one that waits for its
\* job: the Responses and Errors sent on one port are in the order in which
\* the requests were received on it.
C36_ResponseOrder == WireOrder(QueuedRequest, AnyRequest)
\* C36, amended: the Responses and Errors to the requests of one port that
\* carry a type are sent in the order in which those requests were received;
\* such a request is answered only when the typed requests received before it
\* on the port have settled.
C36_QueuedResponseOrder ==
  /\ WireOrder(QueuedRequest, QueuedRequest)
  /\ \A i, j \in Tasks :
       ( /\ tasks[i].port = tasks[j].port
         /\ tasks[i].reqId < tasks[j].reqId
         /\ QueuedRequest(i) /\ QueuedRequest(j)
         /\ tasks[j].posts # << >> )
       => JobSettled(i) /\ Done(i)
\* two typed requests of one port were answered, both Responses on the wire
C36_Witness ==
  \E i, j \in Tasks :
    /\ tasks[i].port = tasks[j].port
    /\ tasks[i].reqId < tasks[j].reqId
    /\ tasks[i].job = "ok"
    /\ tasks[j].job # "none"
    /\ outbox[tasks[i].port] = tasks[i].posts \o tasks[j].posts
    /\ tasks[i].posts # << >>
    /\ tasks[j].posts # << >>

\* the handlers a step takes out of the registered list
Unregistered == { h \in Range(reqHandlers) : h \notin Range(reqHandlers') }
\* a step that shortens the registered list removes one handler and keeps
\* the others in their order, and every dispatch in flight keeps its list
\* and its position in it; a dispatch that begins takes the registered list
C37_UnregisterStep ==
  /\ Len(reqHandlers') < Len(reqHandlers) =>
       /\ Cardinality(Unregistered) = 1
       /\ reqHandlers' = SelectSeq(reqHandlers, LAMBDA x : x \notin Unregistered)
       /\ Len(tasks') = Len(tasks)
       /\ \A i \in Tasks :
            /\ tasks'[i].hs = tasks[i].hs
            /\ tasks'[i].called = tasks[i].called
            /\ tasks'[i].idx = tasks[i].idx
  /\ Len(tasks') > Len(tasks) =>
       /\ tasks'[Len(tasks')].hs = reqHandlers
       /\ Range(tasks'[Len(tasks')].called) \subseteq Range(reqHandlers)
\* the handlers a dispatch calls are those of its list, in order; the back
\* end's handler, which is never unregistered, stays first
C37_Called ==
  /\ reqHandlers # << >>
  /\ reqHandlers[1] = BackHandler
  /\ \A i \in Tasks :
       /\ tasks[i].called = SubSeq(tasks[i].hs, 1, Len(tasks[i].called))
       /\ tasks[i].live => tasks[i].hs = reqHandlers

RECURSIVE Remaining(_, _)
Remaining(list, hs) ==
  IF list = << >> THEN << >>
  ELSE (IF Head(list).hash \in hs THEN << >> ELSE <<Head(list)>>)
         \o Remaining(Tail(list), hs)
\* the remove calls
Removes == { c \in 1..Len(pndCalls) : pndCalls[c].kind = "remove" }

\* a remove call, when it has read the list: the list it hands to set() has
\* no entry of a hash in opHashes and has the other entries of the list read
\* in their order; it is the list read when none of the hashes is in it.
\* When its write completes, that list is what is stored under the key.
C38_RemoveStep ==
  \A c \in Removes :
    LET call == pndCalls[c]
        hs == Range(call.opHashes)
    IN /\ (call.pc = "get" /\ pndCalls'[c].pc = "set") =>
            LET items == pndCalls'[c].items
                read == storage[call.key]
            IN /\ \A i \in 1..Len(items) : items[i].hash \notin hs
               /\ items = Remaining(read, hs)
               /\ (\A i \in 1..Len(read) : read[i].hash \notin hs) => items = read
       /\ (call.pc = "set" /\ pndCalls'[c].pc = "done") =>
            /\ storage'[call.key] = call.items
            /\ \A i \in 1..Len(storage'[call.key]) : storage'[call.key][i].hash \notin hs

\* of two remove calls with the same key and hashes made one directly after
\* the other, with no call running beside them, the second stores the list
\* the first has stored
C38_Idempotent ==
  \A c \in Removes :
    ( /\ c + 1 \in Removes
      /\ PndOneByOne
      /\ pndCalls[c + 1].key = pndCalls[c].key
      /\ pndCalls[c + 1].opHashes = pndCalls[c].opHashes
      /\ pndCalls[c + 1].pc = "done" )
    => pndCalls[c + 1].items = pndCalls[c].items

\* C38: remove(acc, net, hashes) deletes every entry of the list whose hash
\* is in hashes, all entries of one hash together, keeps the other entries in
\* their order, stores the same list when called a second time, and stores
\* the list unchanged when none of the hashes is in it.
C38_Remove == [] C38_Idempotent /\ [][C38_RemoveStep]_vars

\* two entries of hash O1 with an O3 entry behind them were stored; remove of
\* O1 called twice, one call after the other, has left the O3 entry
C38_Witness ==
  /\ PndAllDone
  /\ PndOneByOne
  /\ Len(pndCalls) = 3
  /\ pndCalls[1].kind = "append" /\ pndCalls[1].ops = <<PndOp("O1", "new")>>
  /\ pndCalls[2].kind = "remove" /\ pndCalls[2].opHashes = <<"O1">>
  /\ pndCalls[3].kind = "remove" /\ pndCalls[3].opHashes = <<"O1">>
  /\ \E k \in PndKeys :
       /\ stored0[k] = <<PndOp("O1", "old"), PndOp("O3", "old")>>
       /\ pndCalls[2].items = <<PndOp("O3", "old")>>
       /\ storage[k] = <<PndOp("O3", "old")>>

====
